---------------------------- MODULE Spec2Model ----------------------------
(***************************************************************************)
(* A model of the CPPython interpreter: Lexer (src/src/lexer.cpp), Parser  *)
(* (src/unnamed/part_005, first translation unit), Value and Executor      *)
(* (src/unnamed/part_003, src/unnamed/part_000) and the driver             *)
(* PythonInterpreter (src/unnamed/part_004).                               *)
(*                                                                         *)
(* Text is a sequence of characters, each character a one-character        *)
(* string; std::string operations are sequence operations.  A double is an *)
(* exact rational [n, d] in lowest terms with d > 0; d = 0 stands for the  *)
(* non-finite doubles (n = 1: inf, n = -1: -inf, n = 0: NaN).  Negative    *)
(* zero is not distinguished from zero.                                    *)
(***************************************************************************)
EXTENDS Integers, Sequences, FiniteSets, TLC

(***************************************************************************)
(* Characters                                                              *)
(***************************************************************************)
NUL == "NUL"

Digits == {"0", "1", "2", "3", "4", "5", "6", "7", "8", "9"}

LowerLetters ==
  {"a", "b", "c", "d", "e", "f", "g", "h", "i", "j", "k", "l", "m",
   "n", "o", "p", "q", "r", "s", "t", "u", "v", "w", "x", "y", "z"}

UpperLetters ==
  {"A", "B", "C", "D", "E", "F", "G", "H", "I", "J", "K", "L", "M",
   "N", "O", "P", "Q", "R", "S", "T", "U", "V", "W", "X", "Y", "Z"}

Spaces == {" ", "\t", "\n", "\r", "\f"}

isdigit(c) == c \in Digits
isalpha(c) == c \in LowerLetters \cup UpperLetters
isalnum(c) == isalpha(c) \/ isdigit(c)
isspace(c) == c \in Spaces

DigitVal(c) ==
  CASE c = "0" -> 0 [] c = "1" -> 1 [] c = "2" -> 2 [] c = "3" -> 3
    [] c = "4" -> 4 [] c = "5" -> 5 [] c = "6" -> 6 [] c = "7" -> 7
    [] c = "8" -> 8 [] c = "9" -> 9

DigitCh(n) ==
  CASE n = 0 -> "0" [] n = 1 -> "1" [] n = 2 -> "2" [] n = 3 -> "3"
    [] n = 4 -> "4" [] n = 5 -> "5" [] n = 6 -> "6" [] n = 7 -> "7"
    [] n = 8 -> "8" [] n = 9 -> "9"

\* tolower on the letters strtod compares case-insensitively
tolower(c) ==
  CASE c = "I" -> "i" [] c = "N" -> "n" [] c = "F" -> "f" [] c = "A" -> "a"
    [] c = "E" -> "e" [] OTHER -> c

\* s[i] of a C++ string, 0-based; the terminator past the end
At(s, i) == IF i >= 0 /\ i < Len(s) THEN s[i + 1] ELSE NUL

\* s.substr(start, count)
substr(s, start, count) == SubSeq(s, start + 1, start + count)

\* s.substr(start)
substrFrom(s, start) == SubSeq(s, start + 1, Len(s))

\* the concatenation of a sequence of texts
RECURSIVE Concat(_)
Concat(ss) == IF ss = <<>> THEN <<>> ELSE Head(ss) \o Concat(Tail(ss))

\* a local variable: Body applied to the value it was initialised with
Local(value, Body(_)) == Body(value)

(***************************************************************************)
(* Doubles as exact rationals                                              *)
(***************************************************************************)
Abs(i) == IF i < 0 THEN -i ELSE i

RECURSIVE GCD(_, _)
GCD(a, b) == IF b = 0 THEN a ELSE GCD(b, a % b)

RECURSIVE Pow10(_)
Pow10(k) == IF k <= 0 THEN 1 ELSE 10 * Pow10(k - 1)

\* the rational n/d (d # 0) in lowest terms with a positive denominator
Rat(n, d) ==
  LET g == GCD(Abs(n), Abs(d))
      s == IF d < 0 THEN -1 ELSE 1
  IN  [n |-> s * (n \div g), d |-> s * (d \div g)]

FromInt(i) == [n |-> i, d |-> 1]
Zero == FromInt(0)
PosInf == [n |-> 1, d |-> 0]
NegInf == [n |-> -1, d |-> 0]
NaN == [n |-> 0, d |-> 0]

IsFinite(x) == x.d # 0
IsNaN(x) == x.d = 0 /\ x.n = 0
IsInf(x) == x.d = 0 /\ x.n # 0
Sign(x) == IF x.n < 0 THEN -1 ELSE IF x.n > 0 THEN 1 ELSE 0
SignedInf(s) == IF s < 0 THEN NegInf ELSE PosInf
RNeg(x) == [n |-> -x.n, d |-> x.d]

\* a + b
RAdd(a, b) ==
  IF IsNaN(a) \/ IsNaN(b) THEN NaN
  ELSE IF IsInf(a) THEN (IF IsInf(b) /\ b.n # a.n THEN NaN ELSE a)
  ELSE IF IsInf(b) THEN b
  ELSE Rat(a.n * b.d + b.n * a.d, a.d * b.d)

\* a - b
RSub(a, b) == RAdd(a, RNeg(b))

\* a * b
RMul(a, b) ==
  IF IsNaN(a) \/ IsNaN(b) THEN NaN
  ELSE IF IsInf(a) \/ IsInf(b)
       THEN (IF Sign(a) * Sign(b) = 0 THEN NaN ELSE SignedInf(Sign(a) * Sign(b)))
  ELSE Rat(a.n * b.n, a.d * b.d)

\* a / b: division by zero yields an infinity or NaN, never a fault
RDiv(a, b) ==
  IF IsNaN(a) \/ IsNaN(b) THEN NaN
  ELSE IF IsInf(a) THEN (IF IsInf(b) THEN NaN
                         ELSE SignedInf(Sign(a) * (IF Sign(b) < 0 THEN -1 ELSE 1)))
  ELSE IF IsInf(b) THEN Zero
  ELSE IF b.n = 0 THEN (IF a.n = 0 THEN NaN ELSE SignedInf(Sign(a)))
  ELSE Rat(a.n * b.d, a.d * b.n)

\* the integer part of a finite rational, truncated toward zero
Trunc(x) == IF x.n >= 0 THEN x.n \div x.d ELSE -((-x.n) \div x.d)

\* std::fmod(a, b)
RFmod(a, b) ==
  IF IsNaN(a) \/ IsNaN(b) \/ IsInf(a) THEN NaN
  ELSE IF IsInf(b) THEN a
  ELSE IF b.n = 0 THEN NaN
  ELSE RSub(a, RMul(FromInt(Trunc(RDiv(a, b))), b))

IsIntegral(x) == x.d = 1

(***************************************************************************)
(* std::stod: leading white space, an optional sign, then "inf", "nan" or  *)
(* a decimal mantissa with an optional exponent; what follows the longest  *)
(* such prefix is ignored.  [ok |-> FALSE] is std::invalid_argument.       *)
(* Hexadecimal floats ("0x...") and out-of-range magnitudes are outside    *)
(* the texts the specifications draw.                                      *)
(***************************************************************************)
RECURSIVE SkipSpaces(_, _)
SkipSpaces(s, i) == IF isspace(At(s, i)) THEN SkipSpaces(s, i + 1) ELSE i

\* the run of decimal digits of s from position i: its value, length and end
RECURSIVE ScanDigits(_, _, _, _)
ScanDigits(s, i, val, cnt) ==
  IF isdigit(At(s, i))
  THEN ScanDigits(s, i + 1, 10 * val + DigitVal(At(s, i)), cnt + 1)
  ELSE [val |-> val, cnt |-> cnt, pos |-> i]

StartsWithNoCase(s, i, w) ==
  \A k \in 1..Len(w) : tolower(At(s, i + k - 1)) = w[k]

\* the digits after the decimal point at position i, if there is one
ScanFraction(s, i) ==
  IF At(s, i) = "." THEN ScanDigits(s, i + 1, 0, 0)
  ELSE [val |-> 0, cnt |-> 0, pos |-> i]

\* mant scaled by the exponent part at position i of s; an 'e' that no digit
\* follows is not part of the number
ApplyExponent(s, i, mant) ==
  IF At(s, i) \in {"e", "E"}
  THEN Local(ScanDigits(s, IF At(s, i + 1) \in {"+", "-"} THEN i + 2 ELSE i + 1, 0, 0),
         LAMBDA ed :
           IF ed.cnt = 0 THEN mant
           ELSE IF At(s, i + 1) = "-" THEN RDiv(mant, FromInt(Pow10(ed.val)))
           ELSE RMul(mant, FromInt(Pow10(ed.val))))
  ELSE mant

\* the decimal number at position i1: integer digits, fraction, exponent
ScanDecimal(s, i1) ==
  Local(ScanDigits(s, i1, 0, 0), LAMBDA ip :
  Local(ScanFraction(s, ip.pos), LAMBDA fp :
    IF ip.cnt + fp.cnt = 0 THEN [ok |-> FALSE, val |-> Zero]
    ELSE [ok |-> TRUE,
          val |-> ApplyExponent(s, fp.pos,
                    Rat(ip.val * Pow10(fp.cnt) + fp.val, Pow10(fp.cnt)))]))

\* what follows the sign
ScanUnsigned(s, i1) ==
  IF StartsWithNoCase(s, i1, <<"i", "n", "f">>) THEN [ok |-> TRUE, val |-> PosInf]
  ELSE IF StartsWithNoCase(s, i1, <<"n", "a", "n">>) THEN [ok |-> TRUE, val |-> NaN]
  ELSE ScanDecimal(s, i1)

Signed(r, neg) == IF neg /\ r.ok THEN [ok |-> TRUE, val |-> RNeg(r.val)] ELSE r

stod(s) ==
  Local(SkipSpaces(s, 0), LAMBDA i0 :
    Signed(ScanUnsigned(s, IF At(s, i0) \in {"+", "-"} THEN i0 + 1 ELSE i0),
           At(s, i0) = "-"))

(***************************************************************************)
(* operator<< of a long long and of a double (default format: %g with six  *)
(* significant digits)                                                     *)
(***************************************************************************)
RECURSIVE DigitsOf(_)
DigitsOf(n) ==
  IF n < 10 THEN <<DigitCh(n)>> ELSE DigitsOf(n \div 10) \o <<DigitCh(n % 10)>>

FormatInt(i) == IF i < 0 THEN <<"-">> \o DigitsOf(-i) ELSE DigitsOf(i)

\* num/den > 0 scaled by a power of ten into [1, 10): [num, den, x] with
\* 10^x <= (the value) < 10^(x+1)
RECURSIVE Scaled(_, _, _)
Scaled(num, den, x) ==
  IF num >= 10 * den THEN Scaled(num, 10 * den, x + 1)
  ELSE IF num < den THEN Scaled(10 * num, den, x - 1)
  ELSE [num |-> num, den |-> den, x |-> x]

\* the last digit is rounded to nearest, ties to even
RoundLast(m, r, den) ==
  IF 2 * r > den \/ (2 * r = den /\ m % 2 = 1) THEN m + 1 ELSE m

\* the first k digits of num/den (< 10) by long division, after the digits acc
RECURSIVE LongDivision(_, _, _, _)
LongDivision(num, den, k, acc) ==
  IF k = 1 THEN RoundLast(10 * acc + (num \div den), num % den, den)
  ELSE LongDivision(10 * (num % den), den, k - 1, 10 * acc + (num \div den))

RECURSIVE StripZeros(_)
StripZeros(ds) ==
  IF ds # <<>> /\ ds[Len(ds)] = "0" THEN StripZeros(SubSeq(ds, 1, Len(ds) - 1))
  ELSE ds

RECURSIVE ZerosSeq(_)
ZerosSeq(k) == IF k <= 0 THEN <<>> ELSE <<"0">> \o ZerosSeq(k - 1)

WithPoint(int, frac) == IF frac = <<>> THEN int ELSE int \o <<".">> \o frac

\* the six significant digits of a scaled num/den
SixDigits(num, den) == LongDivision(num, den, 6, 0)

\* %g of the six digits ds with decimal exponent X: scientific notation for
\* X < -4 or X >= 6, trailing zeros removed
FormatDigits(ds, X) ==
  IF X < -4 \/ X >= 6
  THEN WithPoint(<<ds[1]>>, StripZeros(SubSeq(ds, 2, 6)))
       \o <<"e", IF X < 0 THEN "-" ELSE "+">>
       \o (IF Abs(X) < 10 THEN <<"0">> ELSE <<>>) \o DigitsOf(Abs(X))
  ELSE IF X >= 0
  THEN WithPoint(SubSeq(ds, 1, X + 1), StripZeros(SubSeq(ds, X + 2, 6)))
  ELSE WithPoint(<<"0">>, ZerosSeq(-X - 1) \o StripZeros(ds))

\* rounding to six digits may carry into a seventh: 999999.5 is 1e+06
FormatRounded(m0, x0) ==
  IF m0 = 1000000 THEN FormatDigits(DigitsOf(100000), x0 + 1)
  ELSE FormatDigits(DigitsOf(m0), x0)

FormatMagnitude(num, den) ==
  Local(Scaled(num, den, 0), LAMBDA s : FormatRounded(SixDigits(s.num, s.den), s.x))

FormatG(x) == (IF x.n < 0 THEN <<"-">> ELSE <<>>) \o FormatMagnitude(Abs(x.n), x.d)

(***************************************************************************)
(* Value: the tagged runtime value (executor.h) and its coercions          *)
(***************************************************************************)
NumberV(x) == [type |-> "NUMBER", number |-> x]
StringV(s) == [type |-> "STRING", string_value |-> s]
BoolV(b) == [type |-> "BOOLEAN", boolean |-> b]
NoneV == [type |-> "NONE"]
ListV(l) == [type |-> "LIST", list_value |-> l]

\* Value::FileObject: a freshly constructed handle is open
FileObject(fname, m, binary) ==
  [filename |-> fname, mode |-> m, is_binary |-> binary, is_open |-> TRUE]

FileV(fo) == [type |-> "FILE_OBJECT", file_object |-> fo]

\* Value(const Value&) and operator=: the fields of the other value's type
\* are duplicated; a file handle's four fields are copied, nothing is shared
CopyValue(other) ==
  IF other.type = "FILE_OBJECT"
  THEN FileV([filename |-> other.file_object.filename,
              mode |-> other.file_object.mode,
              is_binary |-> other.file_object.is_binary,
              is_open |-> other.file_object.is_open])
  ELSE other

S_True == <<"T", "r", "u", "e">>
S_False == <<"F", "a", "l", "s", "e">>
S_None == <<"N", "o", "n", "e">>
S_NonFinite == <<"<", "n", "o", "n", "-", "f", "i", "n", "i", "t", "e", ">">>

\* the NUMBER case of Value::toString. For a non-finite number the cast to
\* long long is undefined; no specification draws a text that divides by zero.
NumberToString(x) ==
  IF ~IsFinite(x) THEN S_NonFinite
  ELSE IF IsIntegral(x) THEN FormatInt(x.n)
  ELSE FormatG(x)

RECURSIVE toString(_)
RECURSIVE JoinToString(_, _)
\* the LIST case: elements joined by ", "
JoinToString(l, i) ==
  IF i > Len(l) THEN <<>>
  ELSE (IF i > 1 THEN <<",", " ">> ELSE <<>>) \o toString(l[i]) \o JoinToString(l, i + 1)

toString(v) ==
  CASE v.type = "NUMBER" -> NumberToString(v.number)
    [] v.type = "STRING" -> v.string_value
    [] v.type = "BOOLEAN" -> (IF v.boolean THEN S_True ELSE S_False)
    [] v.type = "LIST" -> <<"[">> \o JoinToString(v.list_value, 1) \o <<"]">>
    [] v.type = "FILE_OBJECT" ->
         <<"<", "f", "i", "l", "e", " ", "'">> \o v.file_object.filename
         \o <<"'", " ", "m", "o", "d", "e", " ", "'">> \o v.file_object.mode
         \o <<"'", ">">>
    [] OTHER -> S_None

\* the STRING case of Value::toNumber: catch (...) returns 0.0
toNumberStringOk(s) == Local(stod(s), LAMBDA r : IF r.ok THEN r.val ELSE Zero)

toNumber(v) ==
  CASE v.type = "NUMBER" -> v.number
    [] v.type = "STRING" -> toNumberStringOk(v.string_value)
    [] v.type = "BOOLEAN" -> (IF v.boolean THEN FromInt(1) ELSE Zero)
    [] v.type = "LIST" -> FromInt(Len(v.list_value))
    [] OTHER -> Zero

toBoolean(v) ==
  CASE v.type = "NUMBER" -> v.number # Zero
    [] v.type = "STRING" -> v.string_value # <<>>
    [] v.type = "BOOLEAN" -> v.boolean
    [] v.type = "LIST" -> v.list_value # <<>>
    [] v.type = "FILE_OBJECT" -> v.file_object.is_open
    [] OTHER -> FALSE

(***************************************************************************)
(* Lexer (src/src/lexer.cpp).  A token is [type, value, line]; the column  *)
(* a token also carries is read by no operation and is left out.  The      *)
(* lexer's cursor is [pos, line].                                          *)
(***************************************************************************)
Token(t, v, l) == [type |-> t, value |-> v, line |-> l]

\* Lexer::advance
LexAdvance(source, c) ==
  IF c.pos < Len(source)
  THEN [pos |-> c.pos + 1,
        line |-> IF source[c.pos + 1] = "\n" THEN c.line + 1 ELSE c.line]
  ELSE c

currentChar(source, c) == At(source, c.pos)
peekChar(source, c) == At(source, c.pos + 1)

\* the loop of a triple-quoted string: to the closing triple quote, or until
\* fewer than three characters are left
RECURSIVE ScanTriple(_, _, _)
ScanTriple(source, c, quote) ==
  IF c.pos + 2 < Len(source)
     /\ ~(At(source, c.pos) = quote /\ At(source, c.pos + 1) = quote
          /\ At(source, c.pos + 2) = quote)
  THEN ScanTriple(source, LexAdvance(source, c), quote)
  ELSE c

\* the loop of an ordinary string: to the closing quote, the end of the line
\* or the end of the text; a backslash takes the next character with it
RECURSIVE ScanOrdinary(_, _, _)
ScanOrdinary(source, c, quote) ==
  IF currentChar(source, c) # quote /\ currentChar(source, c) # NUL
     /\ currentChar(source, c) # "\n"
  THEN ScanOrdinary(source,
         LexAdvance(source,
           IF currentChar(source, c) = "\\" /\ peekChar(source, c) # NUL
           THEN LexAdvance(source, c) ELSE c),
         quote)
  ELSE c

\* Lexer::readString: the token and the cursor after it
readString(source, c0) ==
  LET quote == currentChar(source, c0)
      c1 == LexAdvance(source, c0)
  IN  IF c1.pos + 1 < Len(source) /\ currentChar(source, c1) = quote
         /\ peekChar(source, c1) = quote
      THEN LET c2 == LexAdvance(source, LexAdvance(source, c1))
               c3 == ScanTriple(source, c2, quote)
               value == substr(source, c2.pos, c3.pos - c2.pos)
               c4 == IF c3.pos + 2 < Len(source)
                     THEN LexAdvance(source, LexAdvance(source, LexAdvance(source, c3)))
                     ELSE c3
           IN  [tok |-> Token("STRING", value, c4.line), c |-> c4]
      ELSE LET c3 == ScanOrdinary(source, c1, quote)
               value == substr(source, c1.pos, c3.pos - c1.pos)
               c4 == IF currentChar(source, c3) = quote
                     THEN LexAdvance(source, c3) ELSE c3
           IN  [tok |-> Token("STRING", value, c4.line), c |-> c4]

RECURSIVE ScanNumber(_, _, _)
ScanNumber(source, c, hasDot) ==
  IF isdigit(currentChar(source, c)) \/ currentChar(source, c) = "."
  THEN IF currentChar(source, c) = "." /\ hasDot THEN c
       ELSE ScanNumber(source, LexAdvance(source, c),
                       hasDot \/ currentChar(source, c) = ".")
  ELSE c

\* Lexer::readNumber: digits with at most one '.'
readNumber(source, c0) ==
  LET c1 == ScanNumber(source, c0, FALSE)
  IN  [tok |-> Token("NUMBER", substr(source, c0.pos, c1.pos - c0.pos), c1.line),
       c |-> c1]

W_print == <<"p", "r", "i", "n", "t">>
W_input == <<"i", "n", "p", "u", "t">>
W_if == <<"i", "f">>
W_else == <<"e", "l", "s", "e">>
W_for == <<"f", "o", "r">>
W_while == <<"w", "h", "i", "l", "e">>
W_def == <<"d", "e", "f">>
W_return == <<"r", "e", "t", "u", "r", "n">>
W_with == <<"w", "i", "t", "h">>
W_as == <<"a", "s">>

\* Lexer::getKeywordType
getKeywordType(identifier) ==
  CASE identifier = W_print -> "PRINT"
    [] identifier = W_input -> "INPUT"
    [] identifier = W_if -> "IF"
    [] identifier = W_else -> "ELSE"
    [] identifier = W_for -> "FOR"
    [] identifier = W_while -> "WHILE"
    [] identifier = W_def -> "DEF"
    [] identifier = W_return -> "RETURN"
    [] identifier = S_True -> "TRUE"
    [] identifier = S_False -> "FALSE"
    [] identifier = S_None -> "NONE"
    [] OTHER -> "IDENTIFIER"

\* The keyword table of the lexer that knows the with-statement (lexer.h of
\* src/unnamed/part_001 declares WITH and AS; its lexer.cpp is not among the
\* sources): the table above extended by "with" and "as".
getKeywordTypeWithAs(identifier) ==
  CASE identifier = W_with -> "WITH"
    [] identifier = W_as -> "AS"
    [] OTHER -> getKeywordType(identifier)

RECURSIVE ScanIdentifier(_, _)
ScanIdentifier(source, c) ==
  IF isalnum(currentChar(source, c)) \/ currentChar(source, c) = "_"
  THEN ScanIdentifier(source, LexAdvance(source, c))
  ELSE c

\* Lexer::readIdentifier
readIdentifier(source, c0) ==
  LET c1 == ScanIdentifier(source, c0)
      identifier == substr(source, c0.pos, c1.pos - c0.pos)
  IN  [tok |-> Token(getKeywordTypeWithAs(identifier), identifier, c1.line), c |-> c1]

RECURSIVE SkipBlanks(_, _)
SkipBlanks(source, c) ==
  IF isspace(currentChar(source, c)) /\ currentChar(source, c) # "\n"
  THEN SkipBlanks(source, LexAdvance(source, c))
  ELSE c

\* (the comment loop takes the line break at the end of the comment with it)
RECURSIVE SkipCommentAndBreak(_, _)
SkipCommentAndBreak(source, c) ==
  IF currentChar(source, c) # "\n" /\ currentChar(source, c) # NUL
  THEN SkipCommentAndBreak(source, LexAdvance(source, c))
  ELSE LexAdvance(source, c)

RECURSIVE SkipComment(_, _)
SkipComment(source, c) ==
  IF currentChar(source, c) # "\n" /\ currentChar(source, c) # NUL
  THEN SkipComment(source, LexAdvance(source, c))
  ELSE c

\* the one-character operators and delimiters of the switch
SingleCharType(ch) ==
  CASE ch = "+" -> "PLUS" [] ch = "-" -> "MINUS" [] ch = "*" -> "MULTIPLY"
    [] ch = "/" -> "DIVIDE" [] ch = "%" -> "MODULO" [] ch = "<" -> "LESS"
    [] ch = ">" -> "GREATER" [] ch = "(" -> "LPAREN" [] ch = ")" -> "RPAREN"
    [] ch = "{" -> "LBRACE" [] ch = "}" -> "RBRACE" [] ch = "[" -> "LBRACKET"
    [] ch = "]" -> "RBRACKET" [] ch = "," -> "COMMA" [] ch = "." -> "DOT"
    [] ch = ":" -> "COLON" [] ch = ";" -> "SEMICOLON" [] ch = "\n" -> "NEWLINE"
    [] OTHER -> "NONE_SUCH"

\* one turn of the loop of Lexer::tokenize: the tokens it pushes (none or
\* one), the cursor after it, and whether it leaves the loop
Turn(toks, c, stop) == [toks |-> toks, c |-> c, stop |-> stop]
Pushed(r) == Turn(<<r.tok>>, r.c, FALSE)

\* the turn at cursor c, which holds the character ch
LexChar(source, c, ch) ==
  IF ch = NUL THEN Turn(<<>>, c, TRUE)
  ELSE IF ch = "#" THEN Turn(<<>>, SkipComment(source, c), FALSE)
  ELSE IF isdigit(ch) THEN Pushed(readNumber(source, c))
  ELSE IF ch = "\"" \/ ch = "'" THEN Pushed(readString(source, c))
  ELSE IF isalpha(ch) \/ ch = "_" THEN Pushed(readIdentifier(source, c))
  ELSE IF ch = "="
  THEN IF peekChar(source, c) = "="
       THEN Turn(<<Token("EQUAL", <<"=", "=">>, c.line)>>,
                 LexAdvance(source, LexAdvance(source, c)), FALSE)
       ELSE Turn(<<Token("ASSIGN", <<"=">>, c.line)>>, LexAdvance(source, c), FALSE)
  ELSE IF ch = "!"
  THEN IF peekChar(source, c) = "="
       THEN Turn(<<Token("NOT_EQUAL", <<"!", "=">>, c.line)>>,
                 LexAdvance(source, LexAdvance(source, c)), FALSE)
       ELSE Turn(<<>>, LexAdvance(source, c), FALSE)
  ELSE IF SingleCharType(ch) # "NONE_SUCH"
  THEN Turn(<<Token(SingleCharType(ch), <<ch>>, c.line)>>, LexAdvance(source, c), FALSE)
  ELSE Turn(<<>>, LexAdvance(source, c), FALSE)

\* the turn that starts at cursor c0: blanks are skipped first
LexTurn(source, c0) ==
  Local(SkipBlanks(source, c0), LAMBDA c : LexChar(source, c, currentChar(source, c)))

\* the lexer between two turns of the loop: the tokens pushed so far, the
\* cursor, and whether the loop has been left (EOF_TOKEN pushed)
Lexing(tokens, c, done) == [tokens |-> tokens, c |-> c, done |-> done]

EndOfFile(lx, c) == Lexing(Append(lx.tokens, Token("EOF_TOKEN", <<>>, c.line)), c, TRUE)

AfterTurn(lx, turn) ==
  IF turn.stop THEN EndOfFile(lx, turn.c)
  ELSE Lexing(lx.tokens \o turn.toks, turn.c, FALSE)

\* the loop condition of Lexer::tokenize and one turn of its body
tokenizeTurn(source, lx) ==
  IF lx.c.pos < Len(source) THEN AfterTurn(lx, LexTurn(source, lx.c))
  ELSE EndOfFile(lx, lx.c)

\* at most n turns of the loop, one after the other (the turns are split in
\* two halves so that the evaluation stays shallow)
RECURSIVE tokenizeTurns(_, _, _)
tokenizeTurns(source, lx, n) ==
  IF lx.done THEN lx
  ELSE IF n = 1 THEN tokenizeTurn(source, lx)
  ELSE tokenizeTurns(source, tokenizeTurns(source, lx, n \div 2), n - (n \div 2))

\* Lexer::tokenize, from the constructor's cursor (pos 0, line 1)
\* (every turn consumes a character or leaves the loop, so Len(source) + 1
\* turns reach the end)
tokenize(source) ==
  tokenizeTurns(source, Lexing(<<>>, [pos |-> 0, line |-> 1], FALSE), Len(source) + 1).tokens


(***************************************************************************)
(* AST nodes (parser.h)                                                    *)
(***************************************************************************)
LiteralExpr(val, t) == [kind |-> "Literal", value |-> val, type |-> t]
FStringExpr(tmpl) == [kind |-> "FString", template_string |-> tmpl]
IdentifierExpr(n) == [kind |-> "Identifier", name |-> n]
BinaryExpr(l, o, r) == [kind |-> "Binary", left |-> l, op |-> o, right |-> r]
CallExpr(c, args) == [kind |-> "Call", callee |-> c, arguments |-> args]
ListExpr(elems) == [kind |-> "List", elements |-> elems]
IndexExpr(arr, idx) == [kind |-> "Index", array |-> arr, index |-> idx]
PrintStmt(exprs) == [kind |-> "Print", expressions |-> exprs]
AssignStmt(var, val) == [kind |-> "Assign", variable |-> var, value |-> val]
ExprStmt(expr) == [kind |-> "ExprStmt", expression |-> expr]
WithStmt(ctx, vars, b) ==
  [kind |-> "With", context_expr |-> ctx, optional_vars |-> vars, body |-> b]

(***************************************************************************)
(* Parser (src/unnamed/part_005).  The member `current` is threaded        *)
(* through: each parse function takes the cursor and returns               *)
(* [ok, node, cur]; ok = FALSE is the std::runtime_error the function      *)
(* throws, with cur the cursor at the throw.  The message of a parse error *)
(* is read by no caller and is left out.                                   *)
(***************************************************************************)
NoNode == [kind |-> "None"]
Parsed(n, c) == [ok |-> TRUE, node |-> n, cur |-> c]
ParseError(c) == [ok |-> FALSE, node |-> NoNode, cur |-> c]

\* the rest of a parse function after a call that may throw: Rest(r) when the
\* call returned r, the throw passed on otherwise
Then(r, Rest(_)) == IF r.ok THEN Rest(r) ELSE r

\* a try block: Rest(r) when the call returned r, Handler(r) when it threw
TryCatch(r, Rest(_), Handler(_)) == IF r.ok THEN Rest(r) ELSE Handler(r)

peek(tokens, current) == tokens[current + 1]
isAtEnd(tokens, current) == peek(tokens, current).type = "EOF_TOKEN"
advance(tokens, current) == IF ~isAtEnd(tokens, current) THEN current + 1 ELSE current

\* Parser::match: the cursor after the token if it has the type
match(tokens, current, type) ==
  IF peek(tokens, current).type = type THEN advance(tokens, current) ELSE current

\* Parser::consume: the token with the cursor after it, or the throw
consume(tokens, current, type) ==
  IF peek(tokens, current).type = type
  THEN Parsed(peek(tokens, current), advance(tokens, current))
  ELSE ParseError(current)

RECURSIVE parseExpression(_, _)
RECURSIVE parseStatement(_, _)

\* the do-while of parseCall and parseList: expressions separated by commas
RECURSIVE parseExpressionList(_, _, _)
parseExpressionList(tokens, current, acc) ==
  Then(parseExpression(tokens, current), LAMBDA r :
    IF peek(tokens, r.cur).type = "COMMA"
    THEN parseExpressionList(tokens, advance(tokens, r.cur), Append(acc, r.node))
    ELSE Parsed(Append(acc, r.node), r.cur))

\* Parser::parseCall, entered after the '(' has been matched
parseCall(tokens, current, callee) ==
  IF peek(tokens, current).type = "RPAREN"
  THEN Parsed(CallExpr(callee, <<>>), advance(tokens, current))
  ELSE Then(parseExpressionList(tokens, current, <<>>), LAMBDA arguments :
       Then(consume(tokens, arguments.cur, "RPAREN"), LAMBDA close :
         Parsed(CallExpr(callee, arguments.node), close.cur)))

\* Parser::parseList
parseList(tokens, current) ==
  Then(consume(tokens, current, "LBRACKET"), LAMBDA open :
    IF peek(tokens, open.cur).type = "RBRACKET"
    THEN Parsed(ListExpr(<<>>), advance(tokens, open.cur))
    ELSE Then(parseExpressionList(tokens, open.cur, <<>>), LAMBDA elements :
         Then(consume(tokens, elements.cur, "RBRACKET"), LAMBDA close :
           Parsed(ListExpr(elements.node), close.cur))))

\* Parser::parseIndex
parseIndex(tokens, current, array) ==
  Then(consume(tokens, current, "LBRACKET"), LAMBDA open :
  Then(parseExpression(tokens, open.cur), LAMBDA index :
  Then(consume(tokens, index.cur, "RBRACKET"), LAMBDA close :
    Parsed(IndexExpr(array, index.node), close.cur))))

\* the while (true) of parsePrimary after an identifier: a '(' returns the
\* call at once, a '[' wraps the base in an index and loops
RECURSIVE parsePostfix(_, _, _)
parsePostfix(tokens, current, base_expr) ==
  IF peek(tokens, current).type = "LPAREN"
  THEN parseCall(tokens, advance(tokens, current), base_expr)
  ELSE IF peek(tokens, current).type = "LBRACKET"
  THEN Then(parseIndex(tokens, current, base_expr), LAMBDA r :
         parsePostfix(tokens, r.cur, r.node))
  ELSE Parsed(base_expr, current)

\* Parser::parsePrimary: a list literal is returned as parseList built it
parsePrimary(tokens, current) ==
  LET t == peek(tokens, current)
      next == advance(tokens, current)
  IN  CASE t.type = "NUMBER" -> Parsed(LiteralExpr(t.value, "NUMBER"), next)
        [] t.type = "STRING" -> Parsed(LiteralExpr(t.value, "STRING"), next)
        [] t.type = "F_STRING" -> Parsed(FStringExpr(t.value), next)
        [] t.type = "TRUE" -> Parsed(LiteralExpr(S_True, "TRUE"), next)
        [] t.type = "FALSE" -> Parsed(LiteralExpr(S_False, "FALSE"), next)
        [] t.type = "LBRACKET" -> parseList(tokens, current)
        [] t.type = "IDENTIFIER" -> parsePostfix(tokens, next, IdentifierExpr(t.value))
        [] t.type = "LPAREN" ->
             Then(parseExpression(tokens, next), LAMBDA expr :
             Then(consume(tokens, expr.cur, "RPAREN"), LAMBDA close :
               Parsed(expr.node, close.cur)))
        [] OTHER -> ParseError(current)

\* Parser::parseUnary
parseUnary(tokens, current) == parsePrimary(tokens, current)

\* the while loop of parseFactor: operands grouped to the left
RECURSIVE parseFactorLoop(_, _, _)
parseFactorLoop(tokens, current, expr) ==
  IF peek(tokens, current).type \in {"MULTIPLY", "DIVIDE", "MODULO"}
  THEN Then(parseUnary(tokens, advance(tokens, current)), LAMBDA right :
         parseFactorLoop(tokens, right.cur,
           BinaryExpr(expr, peek(tokens, current).type, right.node)))
  ELSE Parsed(expr, current)

\* Parser::parseFactor
parseFactor(tokens, current) ==
  Then(parseUnary(tokens, current), LAMBDA expr :
    parseFactorLoop(tokens, expr.cur, expr.node))

\* (an additive loop whose right operands skip the multiplicative level)
RECURSIVE parseTermLoopFlat(_, _, _)
parseTermLoopFlat(tokens, current, expr) ==
  IF peek(tokens, current).type \in {"PLUS", "MINUS"}
  THEN Then(parseUnary(tokens, advance(tokens, current)), LAMBDA right :
         parseTermLoopFlat(tokens, right.cur,
           BinaryExpr(expr, peek(tokens, current).type, right.node)))
  ELSE Parsed(expr, current)

\* the while loop of parseTerm
RECURSIVE parseTermLoop(_, _, _)
parseTermLoop(tokens, current, expr) ==
  IF peek(tokens, current).type \in {"PLUS", "MINUS"}
  THEN Then(parseFactor(tokens, advance(tokens, current)), LAMBDA right :
         parseTermLoop(tokens, right.cur,
           BinaryExpr(expr, peek(tokens, current).type, right.node)))
  ELSE Parsed(expr, current)

\* Parser::parseTerm
parseTerm(tokens, current) ==
  Then(parseFactor(tokens, current), LAMBDA expr :
    parseTermLoop(tokens, expr.cur, expr.node))

\* the while loop of parseComparison
RECURSIVE parseComparisonLoop(_, _, _)
parseComparisonLoop(tokens, current, expr) ==
  IF peek(tokens, current).type \in {"EQUAL", "NOT_EQUAL", "LESS", "GREATER"}
  THEN Then(parseTerm(tokens, advance(tokens, current)), LAMBDA right :
         parseComparisonLoop(tokens, right.cur,
           BinaryExpr(expr, peek(tokens, current).type, right.node)))
  ELSE Parsed(expr, current)

\* Parser::parseComparison
parseComparison(tokens, current) ==
  Then(parseTerm(tokens, current), LAMBDA expr :
    parseComparisonLoop(tokens, expr.cur, expr.node))

parseExpression(tokens, current) == parseComparison(tokens, current)

\* Parser::parseExpressionPublic is declared in a parser.h that is not among
\* the sources; its caller (evaluateEval) uses it to parse the token sequence
\* as a single expression from the first token.
parseExpressionPublic(tokens) == parseExpression(tokens, 0)

\* (a body of at most one statement: the line after the header)
singleLineBody(tokens, current, body) ==
  IF ~isAtEnd(tokens, current) /\ peek(tokens, current).type # "NEWLINE"
  THEN Then(parseStatement(tokens, current), LAMBDA r :
         Parsed(Append(body, r.node), match(tokens, r.cur, "NEWLINE")))
  ELSE Parsed(body, current)

\* the body loop of parseWithStatement: statements until a NEWLINE or the end
\* is met where a statement would start; the NEWLINE after a body statement
\* is consumed and the loop goes on with the next line
RECURSIVE parseWithBody(_, _, _)
parseWithBody(tokens, current, body) ==
  IF ~isAtEnd(tokens, current) /\ peek(tokens, current).type # "NEWLINE"
  THEN Then(parseStatement(tokens, current), LAMBDA r :
         parseWithBody(tokens, match(tokens, r.cur, "NEWLINE"), Append(body, r.node)))
  ELSE Parsed(body, current)

\* the optional 'as' clause of parseWithStatement: the name token ("" if none)
parseOptionalVars(tokens, current) ==
  IF peek(tokens, current).type = "AS"
  THEN consume(tokens, advance(tokens, current), "IDENTIFIER")
  ELSE Parsed(Token("IDENTIFIER", <<>>, 0), current)

\* Parser::parseWithStatement
parseWithStatement(tokens, current) ==
  Then(consume(tokens, current, "WITH"), LAMBDA kw :
  Then(parseExpression(tokens, kw.cur), LAMBDA context_expr :
  Then(parseOptionalVars(tokens, context_expr.cur), LAMBDA var_token :
  Then(consume(tokens, var_token.cur, "COLON"), LAMBDA colon :
  Then(consume(tokens, colon.cur, "NEWLINE"), LAMBDA newline :
  Then(parseWithBody(tokens, newline.cur, <<>>), LAMBDA body :
    Parsed(WithStmt(context_expr.node, var_token.node.value, body.node),
           body.cur)))))))

\* the comma loop of parsePrintStatement
RECURSIVE parsePrintArgs(_, _, _)
parsePrintArgs(tokens, current, acc) ==
  IF peek(tokens, current).type = "COMMA"
  THEN Then(parseExpression(tokens, advance(tokens, current)), LAMBDA r :
         parsePrintArgs(tokens, r.cur, Append(acc, r.node)))
  ELSE Parsed(acc, current)

\* the expressions of parsePrintStatement, from the token after the '('
parsePrintExpressions(tokens, current) ==
  IF peek(tokens, current).type = "RPAREN" THEN Parsed(<<>>, current)
  ELSE Then(parseExpression(tokens, current), LAMBDA first :
         parsePrintArgs(tokens, first.cur, <<first.node>>))

\* Parser::parsePrintStatement
parsePrintStatement(tokens, current) ==
  Then(consume(tokens, current, "PRINT"), LAMBDA kw :
  Then(consume(tokens, kw.cur, "LPAREN"), LAMBDA open :
  Then(parsePrintExpressions(tokens, open.cur), LAMBDA expressions :
  Then(consume(tokens, expressions.cur, "RPAREN"), LAMBDA close :
    Parsed(PrintStmt(expressions.node), close.cur)))))

\* Parser::parseAssignmentStatement
parseAssignmentStatement(tokens, current) ==
  Then(consume(tokens, current, "IDENTIFIER"), LAMBDA identifier :
  Then(consume(tokens, identifier.cur, "ASSIGN"), LAMBDA eq :
  Then(parseExpression(tokens, eq.cur), LAMBDA value :
    Parsed(AssignStmt(identifier.node.value, value.node), value.cur))))

parseStatement(tokens, current) ==
  IF peek(tokens, current).type = "PRINT" THEN parsePrintStatement(tokens, current)
  ELSE IF peek(tokens, current).type = "WITH" THEN parseWithStatement(tokens, current)
  ELSE IF peek(tokens, current).type = "IDENTIFIER" /\ current + 1 < Len(tokens)
          /\ tokens[current + 2].type = "ASSIGN"
  THEN parseAssignmentStatement(tokens, current)
  ELSE Then(parseExpression(tokens, current), LAMBDA expr :
         Parsed(ExprStmt(expr.node), expr.cur))

\* the catch block of Parser::parse: discard tokens up to the next NEWLINE or
\* the end, then the NEWLINE itself
RECURSIVE skipToLineEnd(_, _)
skipToLineEnd(tokens, current) ==
  IF ~isAtEnd(tokens, current) /\ peek(tokens, current).type # "NEWLINE"
  THEN skipToLineEnd(tokens, advance(tokens, current))
  ELSE current

\* (a parser that gives up at the first malformed statement)
giveUp(tokens, current) == Len(tokens) - 1

\* (a catch block that leaves the cursor where the statement failed)
recoverInPlace(tokens, current) == current

recover(tokens, current) == match(tokens, skipToLineEnd(tokens, current), "NEWLINE")

\* (a parser that takes a statement only when the line ends after it)
parseTurnWholeLine(tokens, current, statements) ==
  IF peek(tokens, current).type = "NEWLINE"
  THEN [cur |-> advance(tokens, current), statements |-> statements]
  ELSE TryCatch(parseStatement(tokens, current),
         LAMBDA r : IF peek(tokens, r.cur).type \in {"NEWLINE", "EOF_TOKEN"}
                    THEN [cur |-> match(tokens, r.cur, "NEWLINE"),
                          statements |-> Append(statements, r.node)]
                    ELSE [cur |-> recover(tokens, r.cur), statements |-> statements],
         LAMBDA r : [cur |-> recover(tokens, r.cur), statements |-> statements])

\* one turn of the while loop of Parser::parse with the cursor at `current`,
\* which is not at the end: the cursor and the statements after it
parseTurn(tokens, current, statements) ==
  IF peek(tokens, current).type = "NEWLINE"
  THEN [cur |-> advance(tokens, current), statements |-> statements]
  ELSE TryCatch(parseStatement(tokens, current),
         LAMBDA r : [cur |-> match(tokens, r.cur, "NEWLINE"),
                     statements |-> Append(statements, r.node)],
         LAMBDA r : [cur |-> recover(tokens, r.cur), statements |-> statements])

\* the while loop of Parser::parse from cursor `current`
RECURSIVE parseFrom(_, _, _)
parseFrom(tokens, current, statements) ==
  IF isAtEnd(tokens, current) THEN statements
  ELSE Local(parseTurn(tokens, current, statements), LAMBDA turn :
         parseFrom(tokens, turn.cur, turn.statements))

\* Parser::parse
parse(tokens) == parseFrom(tokens, 0, <<>>)


(***************************************************************************)
(* Executor (src/unnamed/part_003).  The state an evaluation reads and     *)
(* writes is the record                                                    *)
(*   [variables, interactiveMode, out, files, stdin]                       *)
(* (the variable map, the mode flag, the characters written to std::cout,  *)
(* the file system as path -> content, the unread lines of std::cin).  An  *)
(* evaluation returns [st, val, err]: the state after it, its value, and   *)
(* the what() of the std::runtime_error it throws (<<>>: none) as a        *)
(* sequence of text pieces.                                                *)
(***************************************************************************)
Return(st, val) == [st |-> st, val |-> val, err |-> <<>>]
Throw(st, msg) == [st |-> st, val |-> NoneV, err |-> msg]
Failed(r) == r.err # <<>>

\* variables[name] = value (Value has no move assignment: a copy)
Bind(variables, name, value) ==
  [n \in DOMAIN variables \cup {name} |->
     IF n = name THEN CopyValue(value) ELSE variables[n]]

\* variables.erase(name)
Erase(variables, name) == [n \in DOMAIN variables \ {name} |-> variables[n]]

Put(st, text) == [st EXCEPT !.out = @ \o text]

N_str == <<"s", "t", "r">>
N_repr == <<"r", "e", "p", "r">>
N_int == <<"i", "n", "t">>
N_float == <<"f", "l", "o", "a", "t">>
N_bool == <<"b", "o", "o", "l">>
N_len == <<"l", "e", "n">>
N_open == <<"o", "p", "e", "n">>
N_eval == <<"e", "v", "a", "l">>
N_exec == <<"e", "x", "e", "c">>
N_read == <<"r", "e", "a", "d">>
N_write == <<"w", "r", "i", "t", "e">>
N_close == <<"c", "l", "o", "s", "e">>

\* std::all_of over the characters of s
AllDigitsOrDot(s) == \A i \in 1..Len(s) : isdigit(s[i]) \/ s[i] = "."
AllAlnumOrUnderscore(s) == \A i \in 1..Len(s) : isalnum(s[i]) \/ s[i] = "_"

\* expr.erase(remove_if(isspace))
RECURSIVE RemoveSpaces(_)
RemoveSpaces(s) ==
  IF s = <<>> THEN <<>>
  ELSE (IF isspace(Head(s)) THEN <<>> ELSE <<Head(s)>>) \o RemoveSpaces(Tail(s))

\* the right-to-left scans of parseAndEvaluateSimpleExpression: the first
\* position from the right that holds an operator of ops with a non-empty text
\* on both sides, or -1
RECURSIVE ScanOperator(_, _, _)
ScanOperator(expr, i, ops) ==
  IF i < 0 THEN -1
  ELSE IF expr[i + 1] \in ops /\ i > 0 /\ i + 1 < Len(expr) THEN i
  ELSE ScanOperator(expr, i - 1, ops)

\* (the scans run left to right: the split is at the leftmost operator)
RECURSIVE ScanOperatorForward(_, _, _)
ScanOperatorForward(expr, i, ops) ==
  IF ~(i < Len(expr)) THEN -1
  ELSE IF expr[i + 1] \in ops /\ i > 0 /\ i + 1 < Len(expr) THEN i
  ELSE ScanOperatorForward(expr, i + 1, ops)

SplitPointLeftmost(expr) ==
  Local(ScanOperatorForward(expr, 0, {"+", "-"}), LAMBDA add :
    IF add >= 0 THEN add ELSE ScanOperatorForward(expr, 0, {"*", "/", "%"}))

\* the position parseAndEvaluateSimpleExpression splits at: the rightmost
\* '+' or '-', or with none the rightmost '*', '/' or '%'; -1 with neither
SplitPoint(expr) ==
  Local(ScanOperator(expr, Len(expr) - 1, {"+", "-"}), LAMBDA add :
    IF add >= 0 THEN add ELSE ScanOperator(expr, Len(expr) - 1, {"*", "/", "%"}))

\* the operator of a split applied to the values of its two sides
simpleBinary(op, left_val, right_val) ==
  CASE op = "+" ->
         IF left_val.type = "STRING" \/ right_val.type = "STRING"
         THEN StringV(toString(left_val) \o toString(right_val))
         ELSE NumberV(RAdd(toNumber(left_val), toNumber(right_val)))
    [] op = "-" -> NumberV(RSub(toNumber(left_val), toNumber(right_val)))
    [] op = "*" -> NumberV(RMul(toNumber(left_val), toNumber(right_val)))
    [] op = "/" -> NumberV(RDiv(toNumber(left_val), toNumber(right_val)))
    [] op = "%" -> NumberV(RFmod(toNumber(left_val), toNumber(right_val)))

\* the "simple variable" case: a copy of the bound value (None for a file
\* handle), the name in braces when it is not bound
simpleVariable(expr, variables) ==
  IF expr \in DOMAIN variables
  THEN (IF variables[expr].type \in {"NUMBER", "STRING", "BOOLEAN", "LIST"}
        THEN variables[expr] ELSE NoneV)
  ELSE StringV(<<"{">> \o expr \o <<"}">>)

\* Executor::parseAndEvaluateSimpleExpression: the template mini-evaluator
RECURSIVE parseAndEvaluateSimpleExpression(_, _)
parseAndEvaluateSimpleExpression(expr_str, variables) ==
  Local(RemoveSpaces(expr_str), LAMBDA expr :
    IF expr = <<>> THEN StringV(S_None)
    ELSE IF AllDigitsOrDot(expr)
    THEN Local(stod(expr), LAMBDA r : IF r.ok THEN NumberV(r.val) ELSE StringV(expr))
    ELSE IF AllAlnumOrUnderscore(expr) THEN simpleVariable(expr, variables)
    ELSE Local(SplitPoint(expr), LAMBDA at :
           IF at >= 0
           THEN simpleBinary(expr[at + 1],
                  parseAndEvaluateSimpleExpression(substr(expr, 0, at), variables),
                  parseAndEvaluateSimpleExpression(substrFrom(expr, at + 1), variables))
           ELSE StringV(<<"{">> \o expr_str \o <<"}">>)))

\* the switch of evaluateFString on the character after a backslash
EscapeChar(ch) ==
  CASE ch = "n" -> "\n" [] ch = "r" -> "\r" [] ch = "t" -> "\t"
    [] ch = "b" -> "BS" [] ch = "f" -> "\f" [] ch = "v" -> "VT"
    [] OTHER -> ch

\* the brace count after the character ch
CountBrace(ch, brace_count) ==
  IF ch = "{" THEN brace_count + 1
  ELSE IF ch = "}" THEN brace_count - 1 ELSE brace_count

\* the brace-matching loop of evaluateFString: [expr_end, brace_count]
RECURSIVE MatchBrace(_, _, _)
MatchBrace(template_str, expr_end, brace_count) ==
  IF expr_end < Len(template_str) /\ brace_count > 0
  THEN Local(CountBrace(At(template_str, expr_end), brace_count), LAMBDA bc :
         MatchBrace(template_str, IF bc > 0 THEN expr_end + 1 ELSE expr_end, bc))
  ELSE [expr_end |-> expr_end, brace_count |-> brace_count]

\* the while loop of evaluateFString from position pos
RECURSIVE fstringFrom(_, _, _, _)
fstringFrom(template_str, pos, result, variables) ==
  IF ~(pos < Len(template_str)) THEN result
  ELSE IF At(template_str, pos) = "\\"
  THEN IF pos + 1 < Len(template_str)
       THEN fstringFrom(template_str, pos + 2,
                        Append(result, EscapeChar(At(template_str, pos + 1))), variables)
       ELSE fstringFrom(template_str, pos + 1, Append(result, "\\"), variables)
  ELSE IF At(template_str, pos) = "{"
  THEN Local(MatchBrace(template_str, pos + 1, 1), LAMBDA m :
         IF m.brace_count = 0
         THEN fstringFrom(template_str, m.expr_end + 1,
                result \o toString(parseAndEvaluateSimpleExpression(
                                     substr(template_str, pos + 1, m.expr_end - (pos + 1)),
                                     variables)),
                variables)
         ELSE fstringFrom(template_str, pos + 1, Append(result, "{"), variables))
  ELSE fstringFrom(template_str, pos + 1, Append(result, At(template_str, pos)), variables)

\* Executor::evaluateFString
evaluateFString(fstring, variables) ==
  StringV(fstringFrom(fstring.template_string, 0, <<>>, variables))

\* Executor::evaluateLiteral
evaluateLiteral(literal, st) ==
  CASE literal.type = "NUMBER" ->
         Local(stod(literal.value), LAMBDA r :
           IF r.ok THEN Return(st, NumberV(r.val)) ELSE Throw(st, <<"stod">>))
    [] literal.type = "STRING" -> Return(st, StringV(literal.value))
    [] literal.type = "TRUE" -> Return(st, BoolV(TRUE))
    [] literal.type = "FALSE" -> Return(st, BoolV(FALSE))
    [] OTHER -> Return(st, StringV(literal.value))

\* Executor::evaluateIdentifier
evaluateIdentifier(identifier, st) ==
  IF identifier.name \in DOMAIN st.variables
  THEN Return(st, CopyValue(st.variables[identifier.name]))
  ELSE Return(st, NoneV)

\* the switch of evaluateBinary on the operator, both operands evaluated
applyBinary(op, left, right) ==
  CASE op = "PLUS" ->
         IF left.type = "STRING" \/ right.type = "STRING"
         THEN StringV(toString(left) \o toString(right))
         ELSE IF left.type = "LIST" /\ right.type = "LIST"
         THEN ListV(left.list_value \o right.list_value)
         ELSE NumberV(RAdd(toNumber(left), toNumber(right)))
    [] op = "MINUS" -> NumberV(RSub(toNumber(left), toNumber(right)))
    [] op = "MULTIPLY" -> NumberV(RMul(toNumber(left), toNumber(right)))
    [] op = "DIVIDE" -> NumberV(RDiv(toNumber(left), toNumber(right)))
    [] op = "MODULO" -> NumberV(RFmod(toNumber(left), toNumber(right)))
    [] OTHER -> NoneV

\* Executor::evaluateFileRead
evaluateFileRead(filename, is_binary, st) ==
  IF filename \in DOMAIN st.files
  THEN Return(st, StringV(st.files[filename]))
  ELSE Throw(st, <<"File read error: ", "Could not open file for reading: ">>
                 \o filename)

\* (every write adds to what the file holds, whatever the mode)
evaluateFileWriteAppending(filename, data, is_binary, mode, st) ==
  Return([st EXCEPT !.files =
            [f \in DOMAIN st.files \cup {filename} |->
               IF f # filename THEN st.files[f]
               ELSE IF filename \in DOMAIN st.files THEN st.files[filename] \o data
               ELSE data]],
         NumberV(FromInt(Len(data))))

\* Executor::evaluateFileWrite: std::ofstream cannot open the empty path
evaluateFileWrite(filename, data, is_binary, mode, st) ==
  IF filename = <<>>
  THEN Throw(st, <<"File write error: ", "Could not open file for writing: ">>
                 \o filename)
  ELSE Return([st EXCEPT !.files =
                 [f \in DOMAIN st.files \cup {filename} |->
                    IF f # filename THEN st.files[f]
                    ELSE IF filename \in DOMAIN st.files
                            /\ \E i \in 1..Len(mode) : mode[i] = "a"
                    THEN st.files[filename] \o data
                    ELSE data]],
              NumberV(FromInt(Len(data))))

\* the what() of a dereferenced null pointer: not an exception, no handler
\* catches it
Crash == <<"<null pointer dereference>">>

\* the native stack holds the frames of MaxDepth nested runs of exec and
\* eval; one more exhausts it, which ends the process like a crash does
MaxDepth == 3
StackExhausted == <<"<stack exhausted>">>
Crashes == {Crash, StackExhausted}

\* the rest of an evaluator function after a call that may throw: Rest(r)
\* when the call returned r, the throw passed on otherwise
Try(r, Rest(_)) == IF Failed(r) THEN r ELSE Rest(r)

\* a catch (const std::exception&) block around r: Handler(r) when r threw
Catch(r, Handler(_)) == IF Failed(r) /\ r.err \notin Crashes THEN Handler(r) ELSE r

\* a nested run of the interpreter called from exec or eval: Run works on
\* the same executor one level deeper on the stack
Reenter(st, Run(_)) ==
  IF st.depth >= MaxDepth THEN Throw(st, StackExhausted)
  ELSE Local(Run([st EXCEPT !.depth = @ + 1]), LAMBDA r :
         [r EXCEPT !.st.depth = st.depth])

RECURSIVE evaluateExpression(_, _)
RECURSIVE executeStatement(_, _)

\* a for loop that evaluates exprs[i..] in order: val is the sequence of the
\* values; the first throw ends it
RECURSIVE evaluateAll(_, _, _, _)
evaluateAll(exprs, i, st, acc) ==
  IF i > Len(exprs) THEN Return(st, acc)
  ELSE Try(evaluateExpression(exprs[i], st), LAMBDA r :
         evaluateAll(exprs, i + 1, r.st, Append(acc, r.val)))

\* a for loop that executes statements[i..] in order; the first throw ends it
RECURSIVE executeAll(_, _, _)
executeAll(statements, i, st) ==
  IF i > Len(statements) THEN Return(st, NoneV)
  ELSE Try(executeStatement(statements[i], st), LAMBDA r :
         executeAll(statements, i + 1, r.st))

\* Executor::evaluateList
evaluateList(list, st) ==
  Try(evaluateAll(list.elements, 1, st, <<>>), LAMBDA elements :
    Return(elements.st, ListV(elements.val)))

\* the subscript of evaluateIndex once array and idx are evaluated
elementAt(array, index_val, st) ==
  IF array.type = "LIST"
  THEN IF index_val >= 0 /\ index_val < Len(array.list_value)
       THEN Return(st, array.list_value[index_val + 1])
       ELSE Throw(st, <<"Index out of range">>)
  ELSE Throw(st, <<"Indexing not supported for this type">>)

\* what (int) gives for a double: the integer part when it has one; the
\* conversion of an infinity or a NaN is undefined, and a build can produce
\* any int for it (INT_MIN on x86-64, a saturated value or 0 on AArch64)
INT_MAX == 2147483647
INT_MIN == -INT_MAX - 1
UndefinedCasts == {INT_MIN, 0, 1, INT_MAX}
castToInt(x) == IF IsFinite(x) THEN {Trunc(x)} ELSE UndefinedCasts

\* Executor::evaluateIndex with every outcome of the conversion to int
evaluateIndexOutcomes(index, st) ==
  Local(evaluateExpression(index.array, st), LAMBDA array :
    IF Failed(array) THEN {array}
    ELSE Local(evaluateExpression(index.index, array.st), LAMBDA idx :
           IF Failed(idx) THEN {idx}
           ELSE {elementAt(array.val, index_val, idx.st) :
                   index_val \in castToInt(toNumber(idx.val))}))

\* Executor::evaluateIndex
evaluateIndex(index, st) ==
  Try(evaluateExpression(index.array, st), LAMBDA array :
  Try(evaluateExpression(index.index, array.st), LAMBDA idx :
    elementAt(array.val, Trunc(toNumber(idx.val)), idx.st)))

\* (a list sum that extends the variable on its left, as list.extend does)
evaluateBinaryInPlace(binary, st) ==
  Try(evaluateExpression(binary.left, st), LAMBDA left :
  Try(evaluateExpression(binary.right, left.st), LAMBDA right :
    Return(IF binary.left.kind = "Identifier" /\ left.val.type = "LIST"
              /\ right.val.type = "LIST"
           THEN [right.st EXCEPT !.variables =
                   Bind(@, binary.left.name,
                        applyBinary(binary.op, left.val, right.val))]
           ELSE right.st,
           applyBinary(binary.op, left.val, right.val))))

\* (the right operand is evaluated before the left one)
evaluateBinaryRightFirst(binary, st) ==
  Try(evaluateExpression(binary.right, st), LAMBDA right :
  Try(evaluateExpression(binary.left, right.st), LAMBDA left :
    Return(left.st, applyBinary(binary.op, left.val, right.val))))

\* Executor::evaluateBinary
evaluateBinary(binary, st) ==
  Try(evaluateExpression(binary.left, st), LAMBDA left :
  Try(evaluateExpression(binary.right, left.st), LAMBDA right :
    Return(right.st, applyBinary(binary.op, left.val, right.val))))

\* Executor::evaluateStr
evaluateStr(arguments, st) ==
  IF arguments = <<>> THEN Return(st, StringV(<<>>))
  ELSE Try(evaluateExpression(arguments[1], st), LAMBDA arg :
         Return(arg.st, StringV(toString(arg.val))))

\* Executor::evaluateRepr
evaluateRepr(arguments, st) ==
  IF arguments = <<>> THEN Return(st, StringV(<<"'", "'">>))
  ELSE Try(evaluateExpression(arguments[1], st), LAMBDA arg :
         IF arg.val.type = "STRING"
         THEN Return(arg.st, StringV(<<"'">> \o arg.val.string_value \o <<"'">>))
         ELSE Return(arg.st, StringV(toString(arg.val))))

\* Executor::evaluateInt
evaluateInt(arguments, st) ==
  IF arguments = <<>> THEN Return(st, NumberV(Zero))
  ELSE Try(evaluateExpression(arguments[1], st), LAMBDA arg :
         Return(arg.st, NumberV(FromInt(Trunc(toNumber(arg.val))))))

\* Executor::evaluateFloat
evaluateFloat(arguments, st) ==
  IF arguments = <<>> THEN Return(st, NumberV(Zero))
  ELSE Try(evaluateExpression(arguments[1], st), LAMBDA arg :
         Return(arg.st, NumberV(toNumber(arg.val))))

\* Executor::evaluateBool
evaluateBool(arguments, st) ==
  IF arguments = <<>> THEN Return(st, BoolV(FALSE))
  ELSE Try(evaluateExpression(arguments[1], st), LAMBDA arg :
         Return(arg.st, BoolV(toBoolean(arg.val))))

\* Executor::evaluateLen
evaluateLen(arguments, st) ==
  IF arguments = <<>> THEN Return(st, NumberV(Zero))
  ELSE Try(evaluateExpression(arguments[1], st), LAMBDA arg :
         IF arg.val.type = "LIST"
         THEN Return(arg.st, NumberV(FromInt(Len(arg.val.list_value))))
         ELSE Return(arg.st, NumberV(FromInt(Len(toString(arg.val))))))

\* (open fails when no file has the name, as fopen does)
openFileExisting(filename, mode, st) ==
  IF filename \in DOMAIN st.files
  THEN Return(st, FileV(FileObject(filename, mode,
                                   \E i \in 1..Len(mode) : mode[i] = "b")))
  ELSE Throw(st, <<"No such file: ">> \o filename)

\* the handle evaluateOpen builds from the file name and the mode
openFile(filename, mode, st) ==
  Return(st, FileV(FileObject(filename, mode, \E i \in 1..Len(mode) : mode[i] = "b")))

\* Executor::evaluateOpen: the mode defaults to "r"
evaluateOpen(arguments, st) ==
  IF arguments = <<>>
  THEN Throw(st, <<"open() missing required argument 'file'">>)
  ELSE Try(evaluateExpression(arguments[1], st), LAMBDA filename_value :
         IF Len(arguments) > 1
         THEN Try(evaluateExpression(arguments[2], filename_value.st), LAMBDA mode_value :
                openFile(toString(filename_value.val), toString(mode_value.val),
                         mode_value.st))
         ELSE openFile(toString(filename_value.val), <<"r">>, filename_value.st))

\* the try block of evaluateEval: tokenize, parse one expression, evaluate it
evalExpression(expr_str, st) ==
  Local(parseExpressionPublic(tokenize(expr_str)), LAMBDA expr_node :
    IF expr_node.ok THEN evaluateExpression(expr_node.node, st)
    ELSE Throw(st, <<"Expected expression">>))

\* evaluateEval once the argument is a text: a text of digits and dots is
\* converted at once; the catch hands a text that failed to parse or to
\* evaluate to the template mini-evaluator
evalText(expr_str, st) ==
  IF AllDigitsOrDot(expr_str) /\ stod(expr_str).ok
  THEN Return(st, NumberV(stod(expr_str).val))
  ELSE Catch(evalExpression(expr_str, st), LAMBDA thrown :
         Return(thrown.st,
                parseAndEvaluateSimpleExpression(expr_str, thrown.st.variables)))

\* Executor::evaluateEval
evaluateEval(arguments, st) ==
  IF arguments = <<>> THEN Throw(st, <<"eval() missing required argument">>)
  ELSE Try(evaluateExpression(arguments[1], st), LAMBDA expr_value :
         Reenter(expr_value.st, LAMBDA inner :
           evalText(toString(expr_value.val), inner)))

\* "ensure the code ends with a line break"
WithLineBreak(code_str) ==
  IF code_str # <<>> /\ code_str[Len(code_str)] # "\n"
  THEN Append(code_str, "\n") ELSE code_str

\* (exec'd code runs against a copy of the caller's variables)
execTextIsolated(code_str, st) ==
  Catch(Local(executeAll(parse(tokenize(WithLineBreak(code_str))), 1, st), LAMBDA r :
          [r EXCEPT !.st.variables = st.variables]),
        LAMBDA thrown : Throw(thrown.st, <<"exec error: ">> \o thrown.err))

\* (a fault of the code leaves exec as it was raised, with no prefix)
execTextUnwrapped(code_str, st) ==
  executeAll(parse(tokenize(WithLineBreak(code_str))), 1, st)

\* evaluateExec once the argument is a text: tokenize, parse and execute in
\* this executor; the catch rethrows with the prefix "exec error: "
execText(code_str, st) ==
  Catch(executeAll(parse(tokenize(WithLineBreak(code_str))), 1, st), LAMBDA thrown :
    Throw(thrown.st, <<"exec error: ">> \o thrown.err))

\* (code run by exec cannot call exec again: the inner call returns None)
evaluateExecShallow(arguments, st) ==
  IF arguments = <<>> THEN Throw(st, <<"exec() missing required argument">>)
  ELSE IF st.depth >= 1 THEN Return(st, NoneV)
  ELSE Try(evaluateExpression(arguments[1], st), LAMBDA code_value :
         Reenter(code_value.st, LAMBDA inner :
           execText(toString(code_value.val), inner)))

\* Executor::evaluateExec
evaluateExec(arguments, st) ==
  IF arguments = <<>> THEN Throw(st, <<"exec() missing required argument">>)
  ELSE Try(evaluateExpression(arguments[1], st), LAMBDA code_value :
         Reenter(code_value.st, LAMBDA inner :
           execText(toString(code_value.val), inner)))

\* variables[optional_vars] = context_value, if there is an 'as' clause
bindOptional(optional_vars, value, st) ==
  IF optional_vars # <<>>
  THEN [st EXCEPT !.variables = Bind(@, optional_vars, value)] ELSE st

\* variables.erase(optional_vars), if there is an 'as' clause
eraseOptional(optional_vars, st) ==
  IF optional_vars # <<>>
  THEN [st EXCEPT !.variables = Erase(@, optional_vars)] ELSE st

\* (a with-statement that gives the name back the value it had before)
executeWithRestoring(withStmt, st) ==
  Catch(
    Try(evaluateExpression(withStmt.context_expr, st), LAMBDA context_value :
    Try(executeAll(withStmt.body, 1,
                   bindOptional(withStmt.optional_vars, context_value.val,
                                context_value.st)),
        LAMBDA body :
          Return(IF withStmt.optional_vars \in DOMAIN st.variables
                 THEN bindOptional(withStmt.optional_vars,
                                   st.variables[withStmt.optional_vars], body.st)
                 ELSE eraseOptional(withStmt.optional_vars, body.st), NoneV))),
    LAMBDA thrown : Throw(thrown.st, <<"with statement error: ">> \o thrown.err))

\* Executor::executeWith: the erase is the last statement of the try block,
\* which a throw of the body skips; the catch only rethrows
executeWith(withStmt, st) ==
  Catch(
    Try(evaluateExpression(withStmt.context_expr, st), LAMBDA context_value :
    Try(executeAll(withStmt.body, 1,
                   bindOptional(withStmt.optional_vars, context_value.val,
                                context_value.st)),
        LAMBDA body : Return(eraseOptional(withStmt.optional_vars, body.st), NoneV))),
    LAMBDA thrown : Throw(thrown.st, <<"with statement error: ">> \o thrown.err))

\* the words of a print call joined by one space
RECURSIVE JoinWithSpace(_, _)
JoinWithSpace(values, i) ==
  IF i > Len(values) THEN <<>>
  ELSE (IF i > 1 THEN <<" ">> ELSE <<>>) \o toString(values[i])
       \o JoinWithSpace(values, i + 1)

\* Executor::fastGetString: std::getline, "" at the end of the input
fastGetString(st) ==
  IF st.stdin = <<>> THEN Return(st, StringV(<<>>))
  ELSE Return([st EXCEPT !.stdin = Tail(@)], StringV(Head(st.stdin)))

\* the "input" branch of evaluateCall
callInput(arguments, st) ==
  IF arguments = <<>> THEN fastGetString(st)
  ELSE Try(evaluateExpression(arguments[1], st), LAMBDA prompt :
         fastGetString(Put(prompt.st, toString(prompt.val))))

\* the "print" branch of evaluateCall
callPrint(arguments, st) ==
  Try(evaluateAll(arguments, 1, st, <<>>), LAMBDA args :
    Return(Put(args.st, JoinWithSpace(args.val, 1) \o <<"\n">>), NoneV))

\* fileValue is a reference into the map: the handle is read after the
\* arguments are evaluated (held: the handle as it was, for a binding that
\* the arguments erased or rebound to another type)
fileValueOf(name, held, st) ==
  IF name \in DOMAIN st.variables /\ st.variables[name].type = "FILE_OBJECT"
  THEN st.variables[name].file_object ELSE held

\* (the copies of a handle share one FileObject: close marks every handle of
\* the file closed)
closeEveryCopy(name, st) ==
  Return([st EXCEPT !.variables =
            [n \in DOMAIN @ |->
               IF @[n].type = "FILE_OBJECT"
                  /\ @[n].file_object.filename = @[name].file_object.filename
               THEN [@[n] EXCEPT !.file_object.is_open = FALSE] ELSE @[n]]],
         NoneV)

\* fileValue.file_object->is_open = false
closeFile(name, st) ==
  IF name \in DOMAIN st.variables /\ st.variables[name].type = "FILE_OBJECT"
  THEN Return([st EXCEPT !.variables[name].file_object.is_open = FALSE], NoneV)
  ELSE Return(st, NoneV)

\* the "write" method: the second argument is the data
callWrite(file_object, data, st) ==
  evaluateFileWrite(file_object.filename, data, file_object.is_binary,
                    file_object.mode, st)

\* the method of the file handle bound to name, chosen by the first argument
callMethod(name, held, methodName, arguments, st) ==
  IF methodName = N_read
  THEN evaluateFileRead(fileValueOf(name, held, st).filename,
                        fileValueOf(name, held, st).is_binary, st)
  ELSE IF methodName = N_write /\ Len(arguments) > 1
  THEN Try(evaluateExpression(arguments[2], st), LAMBDA dataValue :
         callWrite(fileValueOf(name, held, dataValue.st), toString(dataValue.val),
                   dataValue.st))
  ELSE IF methodName = N_close THEN closeFile(name, st)
  ELSE Return(st, NoneV)

\* the file-object branch of evaluateCall: the callee names a variable bound
\* to a file handle, the first argument names the method
callFileMethod(name, arguments, st) ==
  IF arguments = <<>> THEN Return(st, NoneV)
  ELSE Try(evaluateExpression(arguments[1], st), LAMBDA methodValue :
         callMethod(name, st.variables[name].file_object, toString(methodValue.val),
                    arguments, methodValue.st))

\* Executor::evaluateCall: a callee that is not an identifier makes the
\* dynamic_cast yield a null pointer, which is dereferenced
evaluateCall(call, st) ==
  IF call.callee.kind # "Identifier" THEN Throw(st, Crash)
  ELSE Local(call.callee.name, LAMBDA funcName :
       CASE funcName = N_str -> evaluateStr(call.arguments, st)
         [] funcName = N_repr -> evaluateRepr(call.arguments, st)
         [] funcName = N_int -> evaluateInt(call.arguments, st)
         [] funcName = N_float -> evaluateFloat(call.arguments, st)
         [] funcName = N_bool -> evaluateBool(call.arguments, st)
         [] funcName = N_len -> evaluateLen(call.arguments, st)
         [] funcName = W_input -> callInput(call.arguments, st)
         [] funcName = W_print -> callPrint(call.arguments, st)
         [] funcName = N_open -> evaluateOpen(call.arguments, st)
         [] funcName = N_eval -> evaluateEval(call.arguments, st)
         [] funcName = N_exec -> evaluateExec(call.arguments, st)
         [] OTHER ->
              IF funcName \in DOMAIN st.variables
                 /\ st.variables[funcName].type = "FILE_OBJECT"
              THEN callFileMethod(funcName, call.arguments, st)
              ELSE Throw(st, <<"Function ">> \o funcName \o <<" is not defined">>))

evaluateExpression(expr, st) ==
  CASE expr.kind = "Literal" -> evaluateLiteral(expr, st)
    [] expr.kind = "List" -> evaluateList(expr, st)
    [] expr.kind = "Index" -> evaluateIndex(expr, st)
    [] expr.kind = "FString" -> Return(st, evaluateFString(expr, st.variables))
    [] expr.kind = "Identifier" -> evaluateIdentifier(expr, st)
    [] expr.kind = "Binary" -> evaluateBinary(expr, st)
    [] expr.kind = "Call" -> evaluateCall(expr, st)
    [] OTHER -> Return(st, NoneV)

\* Executor::executePrint: the results joined with no separator
executePrint(printStmt, st) ==
  Try(evaluateAll(printStmt.expressions, 1, st, <<>>), LAMBDA values :
    Return(Put(values.st,
               Concat([i \in 1..Len(values.val) |-> toString(values.val[i])])
               \o <<"\n">>),
           NoneV))

\* (the name is entered in the map before the expression is evaluated, as
\* 'variables[name] = evaluateExpression(...)' may do: a fault leaves it None)
executeAssignmentNameFirst(assignStmt, st) ==
  Local(evaluateExpression(assignStmt.value, st), LAMBDA value :
    IF Failed(value)
    THEN [value EXCEPT !.st.variables = Bind(@, assignStmt.variable, NoneV)]
    ELSE Return([value.st EXCEPT !.variables = Bind(@, assignStmt.variable, value.val)],
                NoneV))

\* Executor::executeAssignment
executeAssignment(assignStmt, st) ==
  Try(evaluateExpression(assignStmt.value, st), LAMBDA value :
    Return([value.st EXCEPT !.variables = Bind(@, assignStmt.variable, value.val)],
           NoneV))

\* the ExprStmt branch of executeStatement: the value is echoed in
\* interactive mode unless it is None
executeExprStmt(exprStmt, st) ==
  Try(evaluateExpression(exprStmt.expression, st), LAMBDA result :
    IF result.st.interactiveMode /\ result.val.type # "NONE"
    THEN Return(Put(result.st, toString(result.val) \o <<"\n">>), NoneV)
    ELSE Return(result.st, NoneV))

executeStatement(stmt, st) ==
  CASE stmt.kind = "Print" -> executePrint(stmt, st)
    [] stmt.kind = "Assign" -> executeAssignment(stmt, st)
    [] stmt.kind = "With" -> executeWith(stmt, st)
    [] stmt.kind = "ExprStmt" -> executeExprStmt(stmt, st)
    [] OTHER -> Return(st, NoneV)


(***************************************************************************)
(* The interpreter as a state machine                                      *)
(***************************************************************************)
VARIABLES
  pc,               \* the driver's position
  interactiveMode,  \* Executor::interactiveMode
  variables,        \* Executor::variables
  out,              \* what was written to std::cout
  err,              \* what was written to std::cerr
  stdin,            \* the lines std::cin still holds
  files,            \* the file system: path -> content
  source,           \* the text handed to the Lexer
  tokens,           \* the Lexer's result
  statements,       \* the Parser's result
  ip,               \* the statement Executor::execute runs next (from 1)
  call,             \* the evaluator function applied on its own, with its argument
  result            \* what that application returned

vars == <<pc, interactiveMode, variables, out, err, stdin, files, source, tokens,
          statements, ip, call, result>>

\* the Executor object as the evaluator's operators take it; depth counts the
\* runs of exec and eval that are on the stack
Executor ==
  [variables |-> variables, interactiveMode |-> interactiveMode, out |-> out,
   files |-> files, stdin |-> stdin, depth |-> 0]

NoVariables == [n \in {} |-> NoneV]
NoCall == [fn |-> "none"]

\* argv[1] of main
ScriptName == <<"m", "a", "i", "n", ".", "p", "y">>

\* ---- the programs and sessions the interpreter is run on ----

MaxLines == 3
MaxElems == 3

\* the sequences of 1..n members of S
SeqsUpTo(S, n) == UNION {[1..k -> S] : k \in 1..n}

\* the text of the lines ls, each ended by a line break
JoinLines(ls) == Concat([i \in 1..Len(ls) |-> ls[i] \o <<"\n">>])

\* lines of a file: a with header, a print (a body or top-level statement), a
\* call that raises a fault, a blank line and a statement with an unmatched '('
WithLine == <<"w", "i", "t", "h", " ", "5", " ", "a", "s", " ", "h", ":">>
PrintLine == <<"p", "r", "i", "n", "t", "(", "h", ")">>
FaultLine == <<"n", "o", "s", "u", "c", "h", "(", "1", ")">>
BlankLine == <<>>
MalformedLine == <<"p", "r", "i", "n", "t", "(", "(", "h">>

FileLines == {WithLine, PrintLine, FaultLine, BlankLine, MalformedLine}

LinePrograms == {JoinLines(ls) : ls \in SeqsUpTo(FileLines, MaxLines)}

\* the arguments of a print
PrintArgs == { <<"1">>, <<"\"", "a", "\"">>, <<"2", ".", "5">> }

\* print(a, b) as a statement
PrintStatementProgram(a, b) == <<"p", "r", "i", "n", "t", "(">> \o a \o <<",", " ">> \o b \o <<")", "\n">>

\* print(a, b) where an expression is expected, and a print of what it yields
PrintCallProgram(a, b) == <<"x", " ", "=", " ", "p", "r", "i", "n", "t", "(">> \o a \o <<",", " ">> \o b \o <<")", "\n", "p", "r", "i", "n", "t", "(", "x", ")", "\n">>

PrintStatementPrograms == {PrintStatementProgram(a, b) : a, b \in PrintArgs}

PrintCallPrograms == {PrintCallProgram(a, b) : a, b \in PrintArgs}

\* the list literal [10, 20, ..] of n elements
RECURSIVE ElementTexts(_, _)
ElementTexts(k, n) ==
  IF k > n THEN <<>>
  ELSE (IF k > 1 THEN <<",", " ">> ELSE <<>>) \o FormatInt(10 * k) \o ElementTexts(k + 1, n)

ListLiteral(n) == <<"[">> \o ElementTexts(1, n) \o <<"]">>

\* a list literal of n elements directly indexed by i, and a print of the result
IndexLiteralProgram(n, i) ==
  <<"r", " ", "=", " ">> \o ListLiteral(n) \o <<"[">> \o FormatInt(i) \o <<"]", "\n", "p", "r", "i", "n", "t", "(", "r", ")", "\n">>

\* a variable bound to the list and indexed by i, and a print of the result
IndexVariableProgram(n, i) ==
  <<"a", " ", "=", " ">> \o ListLiteral(n) \o <<"\n", "r", " ", "=", " ", "a", "[">> \o FormatInt(i) \o <<"]", "\n", "p", "r", "i", "n", "t", "(", "r", ")", "\n">>

IndexPrograms ==
  {IndexLiteralProgram(n, i) : n \in 1..MaxElems, i \in 0..(MaxElems + 2)}
  \cup {IndexVariableProgram(n, i) : n \in 1..MaxElems, i \in 0..(MaxElems + 2)}

\* lists of n and m elements bound to a and b, then their sum bound to c
ConcatProgram(n, m) ==
  <<"a", " ", "=", " ">> \o ListLiteral(n) \o <<"\n", "b", " ", "=", " ">> \o ListLiteral(m) \o <<"\n", "c", " ", "=", " ", "a", " ", "+", " ", "b", "\n">>

ConcatPrograms == {ConcatProgram(n, m) : n, m \in 0..MaxElems}

\* x bound to v, y bound by an assignment inside exec'd code that reads x,
\* then eval of a text that reads both, and a print of y by the caller
ExecProgram(v) ==
  <<"x", " ", "=", " ">> \o FormatInt(v) \o <<"\n", "e", "x", "e", "c", "(", "\"", "y", " ", "=", " ", "x", " ", "+", " ", "1", "\"", ")", "\n", "p", "r", "i", "n", "t", "(", "e", "v", "a", "l", "(", "\"", "x", " ", "+", " ", "y", "\"", ")", ")", "\n", "p", "r", "i", "n", "t", "(", "y", ")", "\n">>

ExecPrograms == {ExecProgram(v) : v \in 1..MaxElems}

\* lines of a script in which a fault stops the run: an assignment, a print
\* of the assigned name, and the call that raises a fault
AssignLine == <<"x", " ", "=", " ", "7">>
PrintXLine == <<"p", "r", "i", "n", "t", "(", "x", ")">>

FaultPrograms ==
  {JoinLines(ls) : ls \in SeqsUpTo({AssignLine, PrintXLine, FaultLine}, MaxLines)}

\* x bound to what input returns, with and without a prompt, and a print of x;
\* std::cin holds the line TypedAnswer
InputProgram(prompt) == <<"x", " ", "=", " ", "i", "n", "p", "u", "t", "(">> \o prompt \o <<")", "\n", "p", "r", "i", "n", "t", "(", "x", ")", "\n">>

InputPrompts == { <<>>, <<"\"", "p", "\"">> }

InputPrograms == {InputProgram(prompt) : prompt \in InputPrompts}

TypedAnswer == <<"a", "b", "c">>

\* the modes a file handle is opened with
Modes == { <<"r">>, <<"w">>, <<"a", "b">> }

FileName == <<"t">>

\* a handle bound to fh, its copy bound to g, close called through fh, and
\* prints of what bool gives for each
CopyHandleProgram(mode) ==
  <<"f", "h", " ", "=", " ", "o", "p", "e", "n", "(", "\"", "t", "\"", ",", " ", "\"">> \o mode \o <<"\"", ")", "\n", "g", " ", "=", " ", "f", "h", "\n", "f", "h", "(", "\"", "c", "l", "o", "s", "e", "\"", ")", "\n", "p", "r", "i", "n", "t", "(", "b", "o", "o", "l", "(", "f", "h", ")", ")", "\n", "p", "r", "i", "n", "t", "(", "b", "o", "o", "l", "(", "g", ")", ")", "\n">>

CopyHandlePrograms == {CopyHandleProgram(mode) : mode \in Modes}

\* what the file FileName holds before a script that writes to it runs
OldContent == <<"o", "l", "d">>

Payloads == { <<>>, <<"a", "b">>, <<"c">> }

\* a handle opened with mode, and two writes through it, the counts they
\* return bound to n and m
WriteProgram(mode, p1, p2) ==
  <<"f", "h", " ", "=", " ", "o", "p", "e", "n", "(", "\"", "t", "\"", ",", " ", "\"">> \o mode \o <<"\"", ")", "\n", "n", " ", "=", " ", "f", "h", "(", "\"", "w", "r", "i", "t", "e", "\"", ",", " ", "\"">> \o p1
  \o <<"\"", ")", "\n", "m", " ", "=", " ", "f", "h", "(", "\"", "w", "r", "i", "t", "e", "\"", ",", " ", "\"">> \o p2 \o <<"\"", ")", "\n">>

WritePrograms ==
  {WriteProgram(mode, p1, p2) : mode \in Modes, p1 \in Payloads, p2 \in Payloads}

\* the lines of a code text handed to exec
CodeLines == {AssignLine, PrintXLine, FaultLine, MalformedLine}

\* the lines ls as they stand in a triple-quoted string literal: a line
\* break between them
RECURSIVE BrokenLines(_, _)
BrokenLines(ls, k) ==
  IF k > Len(ls) THEN <<>>
  ELSE (IF k > 1 THEN <<"\n">> ELSE <<>>) \o ls[k] \o BrokenLines(ls, k + 1)

\* what exec of the code returns bound to r, then prints of r and of x
ExecCodeProgram(ls) ==
  <<"r", " ", "=", " ", "e", "x", "e", "c", "(", "\"", "\"", "\"">> \o BrokenLines(ls, 1) \o <<"\"", "\"", "\"", ")", "\n", "p", "r", "i", "n", "t", "(", "r", ")", "\n", "p", "r", "i", "n", "t", "(", "x", ")", "\n">>

ExecCodePrograms == {ExecCodeProgram(ls) : ls \in SeqsUpTo(CodeLines, MaxLines)}

\* the expression texts handed to eval in a script that binds a to [10]:
\* three whose evaluation raises a fault, one that evaluates, one that does
\* not parse
FaultTexts == { <<"a", "[", "5", "]">>, <<"n", "o", "s", "u", "c", "h", "(", "1", ")">>, <<"x", "[", "0", "]">> }

EvalTexts == FaultTexts \cup { <<"a", "[", "0", "]">>, <<"1", " ", "+">> }

\* a bound to a list, r bound to what eval of the text returns, a print of r
EvalProgram(text) ==
  <<"a", " ", "=", " ", "[", "1", "0", "]", "\n", "r", " ", "=", " ", "e", "v", "a", "l", "(", "\"">> \o text \o <<"\"", ")", "\n", "p", "r", "i", "n", "t", "(", "r", ")", "\n">>

EvalPrograms == {EvalProgram(text) : text \in EvalTexts}

\* the operands of a comparison: a number, a string, a sum that reads a
\* variable, and two calls that write when they are evaluated
CompareOperands ==
  { <<"1">>, <<"\"", "s", "\"">>, <<"2", " ", "+", " ", "x">>, <<"e", "x", "e", "c", "(", "\"", "p", "r", "i", "n", "t", "(", "1", ")", "\"", ")">>, <<"e", "x", "e", "c", "(", "\"", "p", "r", "i", "n", "t", "(", "2", ")", "\"", ")">> }

CompareOps == { <<"=", "=">>, <<"!", "=">>, <<"<">>, <<">">> }

\* r bound to the comparison of a and b, and a print of r
CompareProgram(a, op, b) ==
  <<"r", " ", "=", " ">> \o a \o <<" ">> \o op \o <<" ">> \o b \o <<"\n", "p", "r", "i", "n", "t", "(", "r", ")", "\n">>

ComparePrograms ==
  {CompareProgram(a, op, b) : a \in CompareOperands, op \in CompareOps, b \in CompareOperands}

\* a handle printed before and after close is called through it
CloseRenderProgram(mode) ==
  <<"f", "h", " ", "=", " ", "o", "p", "e", "n", "(", "\"", "t", "\"", ",", " ", "\"">> \o mode \o <<"\"", ")", "\n", "p", "r", "i", "n", "t", "(", "f", "h", ")", "\n", "f", "h", "(", "\"", "c", "l", "o", "s", "e", "\"", ")", "\n", "p", "r", "i", "n", "t", "(", "f", "h", ")", "\n">>

CloseRenderPrograms == {CloseRenderProgram(mode) : mode \in Modes}

\* open of a path that exists or not, with a mode or without one, then a read
MissingName == <<"n">>

OpenNames == {FileName, MissingName}

OpenModes == { <<>>, <<"w">>, <<"r", "b">> }

OpenProgram(name, mode) ==
  <<"f", "h", " ", "=", " ", "o", "p", "e", "n", "(", "\"">> \o name \o <<"\"">>
  \o (IF mode = <<>> THEN <<>> ELSE <<",", " ", "\"">> \o mode \o <<"\"">>)
  \o <<")", "\n", "p", "r", "i", "n", "t", "(", "b", "o", "o", "l", "(", "f", "h", ")", ")", "\n", "r", " ", "=", " ", "f", "h", "(", "\"", "r", "e", "a", "d", "\"", ")", "\n", "p", "r", "i", "n", "t", "(", "r", ")", "\n">>

OpenPrograms == {OpenProgram(name, mode) : name \in OpenNames, mode \in OpenModes}

\* a list bound to a, then an expression statement that calls through a name
\* or through an element of the list
CalleeLines == {<<"l", "e", "n", "(", "a", ")">>, <<"a", "(", "1", ")">>, <<"a", "[", "0", "]", "(", "1", ")">>, <<"a", "[", "0", "]", "[", "0", "]", "(", "1", ")">>}

CalleeProgram(line) == <<"a", " ", "=", " ", "[", "1", "0", "]", "\n">> \o line \o <<"\n", "p", "r", "i", "n", "t", "(", "a", ")", "\n">>

CalleePrograms == {CalleeProgram(line) : line \in CalleeLines}

\* code held in the variable s and run by exec or eval: the code either
\* names s again or does not
ReentrantTexts == {<<"e", "x", "e", "c", "(", "s", ")">>, <<"e", "v", "a", "l", "(", "s", ")">>}
PlainTexts == {<<"x", " ", "=", " ", "1">>, <<"e", "x", "e", "c", "(", "t", ")">>, <<"t">>}
HeldRuns == {<<"e", "x", "e", "c", "(", "s", ")">>, <<"r", " ", "=", " ", "e", "v", "a", "l", "(", "s", ")">>}

HeldCodeProgram(text, run) ==
  <<"t", " ", "=", " ", "\"", "x", " ", "=", " ", "2", "\"", "\n", "s", " ", "=", " ", "\"">> \o text \o <<"\"", "\n">> \o run \o <<"\n", "p", "r", "i", "n", "t", "(", "s", ")", "\n">>

ReentrantPrograms == {HeldCodeProgram(text, run) : text \in ReentrantTexts, run \in HeldRuns}
PlainPrograms == {HeldCodeProgram(text, run) : text \in PlainTexts, run \in HeldRuns}
HeldCodePrograms == ReentrantPrograms \cup PlainPrograms

\* n is bound, then a with-statement binds n again for its one-line body,
\* then n is printed
OldValues == {1, 7}
ContextTexts == {<<"5">>, <<"n", " ", "+", " ", "1">>}

RebindProgram(old, ctx) ==
  <<"n", " ", "=", " ">> \o FormatInt(old) \o <<"\n", "w", "i", "t", "h", " ">> \o ctx \o <<" ", "a", "s", " ", "n", ":", "\n", "p", "r", "i", "n", "t", "(", "n", ")", "\n", "\n", "p", "r", "i", "n", "t", "(", "n", ")", "\n">>

RebindPrograms == {RebindProgram(old, ctx) : old \in OldValues, ctx \in ContextTexts}

\* a and x are bound, then an assignment to x or to the new name y whose
\* expression faults or not, then a print
AssignedNames == {<<"x">>, <<"y">>}
FaultingExprs == {<<"a", "[", "5", "]">>, <<"n", "o", "s", "u", "c", "h", "(", "1", ")">>, <<"x", "[", "0", "]">>, <<"1", " ", "+", " ", "a", "[", "3", "]">>, <<"[", "1", ",", " ", "a", "[", "2", "]", "]">>}
PlainExprs == {<<"a", "[", "0", "]">>, <<"x", " ", "+", " ", "1">>}

AssignProgram(name, e) ==
  <<"a", " ", "=", " ", "[", "1", "0", "]", "\n", "x", " ", "=", " ", "7", "\n">> \o name \o <<" ", "=", " ">> \o e \o <<"\n", "p", "r", "i", "n", "t", "(", "x", ")", "\n">>

AssignPrograms ==
  {AssignProgram(name, e) : name \in AssignedNames, e \in FaultingExprs \cup PlainExprs}

Programs ==
  LinePrograms \cup PrintStatementPrograms \cup PrintCallPrograms
  \cup IndexPrograms \cup ConcatPrograms \cup ExecPrograms \cup FaultPrograms
  \cup InputPrograms \cup CopyHandlePrograms \cup WritePrograms
  \cup ExecCodePrograms \cup EvalPrograms \cup ComparePrograms
  \cup CloseRenderPrograms \cup OpenPrograms \cup CalleePrograms
  \cup HeldCodePrograms \cup RebindPrograms \cup AssignPrograms

\* lines typed at the prompt
TypedLines == { <<"x", " ", "=", " ", "5">>, <<"x">>, FaultLine, <<"p", "r", "i", "n", "t", "(", "x">>, <<"h", "e", "l", "p">>, <<"e", "x", "i", "t", "(", ")">>, <<>> }

Sessions == SeqsUpTo(TypedLines, MaxLines - 1)

\* ---- the console texts of interactiveMode ----

Banner ==
  <<"CPPython 1.0.3 (simplified interpreter)", "\n",
    "Type \"help\", \"copyright\", \"credits\" or \"license\" for more information.",
    "\n">>

HelpText ==
  <<"Welcome to CPPython help utility!", "\n", "\n",
    "Supported features:", "\n",
    "  - Basic arithmetic operations (+, -, *, /, %)", "\n",
    "  - Variable assignment (x = 5)", "\n",
    "  - Print statements (print(\"Hello\"))", "\n",
    "  - Input function (input(\"prompt\"))", "\n",
    "  - F-strings (f\"{x}+{y}={x+y}\")", "\n",
    "  - String operations", "\n",
    "  - eval() and exec() functions", "\n",
    "  - Escape sequences (\\n, \\t, \\\\, etc.)", "\n",
    "  - List operations (one-dimensional and multi-dimensional)", "\n",
    "  - File operations (open, read, write, with statement)", "\n",
    "  - Built-in functions (str, int, float, bool, len, repr)", "\n",
    "  - Comments (# this is a comment)", "\n", "\n",
    "Type \"copyright\", \"credits\" or \"license\" for more information.", "\n",
    "Type \"exit()\" or \"quit()\" to exit.", "\n">>

\* the lines interactiveMode answers itself, with the answer
Answered(line) ==
  CASE line = <<"h", "e", "l", "p", "(", ")">> -> HelpText
    [] line = <<"h", "e", "l", "p">> ->
         <<"Type help() for interactive help, or help(object) for help about object.",
           "\n">>
    [] line = <<"c", "o", "p", "y", "r", "i", "g", "h", "t">> ->
         <<"Copyright (c) 2024 CPPython Project. All Rights Reserved.", "\n">>
    [] line = <<"c", "r", "e", "d", "i", "t", "s">> ->
         <<"    Thanks to Python Software Foundation for inspiration", "\n",
           "    Thanks to Guido van Rossum for creating Python", "\n",
           "    Thanks to all contributors to this project", "\n">>
    [] line = <<"l", "i", "c", "e", "n", "s", "e">> ->
         <<"CPPython is licensed under the MIT License.", "\n",
           "See https://opensource.org/licenses/MIT for more information.", "\n">>
    [] OTHER -> <<>>

Prompt == <<">", ">", ">", " ">>

\* ---- Init: main has constructed the PythonInterpreter ----

InitExecutor ==
  /\ interactiveMode = FALSE
  /\ variables = NoVariables
  /\ out = <<>>
  /\ err = <<>>
  /\ source = <<>>
  /\ tokens = <<>>
  /\ statements = <<>>
  /\ ip = 0
  /\ call = NoCall
  /\ result = NoneV

\* argc = 2: a script to execute; argc = 1: a session typed on std::cin
Init ==
  /\ InitExecutor
  /\ \/ /\ pc = "executeFile"
        /\ \E p \in Programs :
              /\ files = [f \in {ScriptName}
                                  \cup (IF p \in WritePrograms \cup OpenPrograms
                                      THEN {FileName} ELSE {}) |->
                             IF f = ScriptName THEN p ELSE OldContent]
              /\ stdin = IF p \in InputPrograms THEN <<TypedAnswer>> ELSE <<>>
     \/ /\ pc = "interactiveMode"
        /\ files = [f \in {} |-> <<>>]
        /\ stdin \in Sessions

\* ---- the actions ----

\* the assignments every step of the evaluator makes to the Executor
Becomes(st) ==
  /\ variables' = st.variables
  /\ out' = st.out
  /\ files' = st.files
  /\ stdin' = st.stdin

\* the first lines of PythonInterpreter::interactiveMode
StartInteractive ==
  /\ pc = "interactiveMode"
  /\ out' = out \o Banner
  /\ interactiveMode' = TRUE
  /\ pc' = "prompt"
  /\ UNCHANGED <<variables, err, stdin, files, source, tokens, statements, ip, call,
                 result>>

\* one turn of the loop of interactiveMode up to the Lexer: prompt, std::getline
\* and the lines the loop answers itself
GetLine ==
  /\ pc = "prompt"
  /\ IF stdin = <<>>
     THEN /\ out' = out \o Prompt
          /\ pc' = "exit"
          /\ UNCHANGED <<stdin, source>>
     ELSE LET line == Head(stdin)
          IN  /\ stdin' = Tail(stdin)
              /\ out' = out \o Prompt \o Answered(line)
              /\ IF line = <<"e", "x", "i", "t", "(", ")">> \/ line = <<"q", "u", "i", "t", "(", ")">>
                 THEN pc' = "exit" /\ UNCHANGED source
                 ELSE IF Answered(line) # <<>> \/ line = <<>>
                 THEN pc' = "prompt" /\ UNCHANGED source
                 ELSE pc' = "tokenize" /\ source' = line
  /\ UNCHANGED <<interactiveMode, variables, err, files, tokens, statements, ip, call,
                 result>>

\* the first lines of PythonInterpreter::executeFile: Utils::readFile
ReadFile ==
  /\ pc = "executeFile"
  /\ IF ScriptName \in DOMAIN files
     THEN /\ source' = files[ScriptName]
          /\ pc' = IF files[ScriptName] = <<>> THEN "failed" ELSE "tokenize"
          /\ UNCHANGED err
     ELSE /\ err' = err \o <<"Error: Could not open file ">> \o ScriptName \o <<"\n">>
          /\ pc' = "failed"
          /\ UNCHANGED source
  /\ UNCHANGED <<interactiveMode, variables, out, stdin, files, tokens, statements, ip,
                 call, result>>

\* Lexer lexer(source); lexer.tokenize()
Tokenize ==
  /\ pc = "tokenize"
  /\ tokens' = tokenize(source)
  /\ pc' = "parse"
  /\ UNCHANGED <<interactiveMode, variables, out, err, stdin, files, source,
                 statements, ip, call, result>>

\* Parser parser(tokens); parser.parse()
Parse ==
  /\ pc = "parse"
  /\ statements' = parse(tokens)
  /\ ip' = 1
  /\ pc' = "execute"
  /\ UNCHANGED <<interactiveMode, variables, out, err, stdin, files, source, tokens,
                 call, result>>

\* where the driver goes when execute returns: the next turn of the loop of
\* interactiveMode; out of executeFile with true, and main returns 0
AfterExecute == IF interactiveMode THEN "prompt" ELSE "exit"

\* where the driver goes when its catch has reported a fault: the next turn of
\* the loop of interactiveMode; out of executeFile with false, and main
\* returns 1
AfterFault == IF interactiveMode THEN "prompt" ELSE "failed"

\* (a fault is reported and execute goes on with the next statement)
ExecuteStatementResuming ==
  /\ pc = "execute"
  /\ ip <= Len(statements)
  /\ \E r \in {executeStatement(statements[ip], Executor)} :
         /\ Becomes(r.st)
         /\ IF r.err \in Crashes
            THEN pc' = "crashed" /\ UNCHANGED <<err, ip>>
            ELSE /\ err' = IF Failed(r) THEN err \o <<"Error: ">> \o r.err \o <<"\n">>
                          ELSE err
                 /\ ip' = ip + 1
                 /\ UNCHANGED pc
  /\ UNCHANGED <<interactiveMode, source, tokens, statements, call, result>>

\* one turn of the loop of Executor::execute, with the driver's catch
ExecuteStatement ==
  /\ pc = "execute"
  /\ ip <= Len(statements)
  /\ \E r \in {executeStatement(statements[ip], Executor)} :
         /\ Becomes(r.st)
         /\ IF r.err \in Crashes
            THEN pc' = "crashed" /\ UNCHANGED <<err, ip>>
            ELSE IF Failed(r)
            THEN /\ err' = err \o <<"Error: ">> \o r.err \o <<"\n">>
                 /\ pc' = AfterFault
                 /\ UNCHANGED ip
            ELSE /\ ip' = ip + 1
                 /\ UNCHANGED <<pc, err>>
  /\ UNCHANGED <<interactiveMode, source, tokens, statements, call, result>>

\* the loop of Executor::execute has run every statement
EndExecute ==
  /\ pc = "execute"
  /\ ip > Len(statements)
  /\ pc' = AfterExecute
  /\ UNCHANGED <<interactiveMode, variables, out, err, stdin, files, source, tokens,
                 statements, ip, call, result>>

Next ==
  \/ StartInteractive
  \/ GetLine
  \/ ReadFile
  \/ Tokenize
  \/ Parse
  \/ ExecuteStatement
  \/ EndExecute

Spec == Init /\ [][Next]_vars

(***************************************************************************)
(* The interpreter's functions applied on their own: evaluateEval to an     *)
(* expression text, evaluateFString to a template, Value::toNumber to a     *)
(* string, each in an Executor whose variables are drawn from Envs, and     *)
(* Lexer::tokenize and Parser::parse to a text.                             *)
(***************************************************************************)
MaxOperands == 3
MaxChars == 3

Operators == {"+", "-", "*", "/", "%"}

\* the texts operand (operator operand)* of at most MaxOperands operands, as
\* [operands, ops]
Expressions(atoms) ==
  UNION {[operands : [1..k -> atoms], ops : [1..(k - 1) -> Operators]] :
           k \in 1..MaxOperands}

\* the text of an expression, sep on both sides of every operator
RECURSIVE ExprTextFrom(_, _, _)
ExprTextFrom(e, sep, k) ==
  IF k > Len(e.operands) THEN <<>>
  ELSE (IF k > 1 THEN sep \o <<e.ops[k - 1]>> \o sep ELSE <<>>)
       \o e.operands[k] \o ExprTextFrom(e, sep, k + 1)

ExprText(e, sep) == ExprTextFrom(e, sep, 1)

\* the environments: x and y bound to numbers, and y unbound
Envs ==
  { [n \in {<<"x">>, <<"y">>} |-> IF n = <<"x">> THEN NumberV(FromInt(2)) ELSE NumberV(FromInt(3))],
    [n \in {<<"x">>} |-> NumberV(FromInt(2))] }

EvalAtoms == {<<"3">>, <<"4">>, <<"x">>}
RegionAtoms == {<<"1", ".", "5">>, <<"x">>, <<"y">>}

\* the example of the documentation: 2 + 3 * 4
EvalExample == [operands |-> <<<<"2">>, <<"3">>, <<"4">>>>, ops |-> <<"+", "*">>]

\* the texts around a brace region: plain text, text with backslash escapes,
\* a closing brace on its own
Outside ==
  { [before |-> <<"s", "u", "m", "=">>, after |-> <<>>],
    [before |-> <<"a", "\\", "t", "b">>, after |-> <<"\\", "{", "!">>],
    [before |-> <<"}", " ">>, after |-> <<"\\", "n">>] }

\* the strings handed to toNumber
Strings ==
  {<<>>, <<"1", "2", "a", "b", "c">>} \cup SeqsUpTo({"1", "2", ".", "a", " ", "-"}, MaxChars)

\* the texts handed to the Lexer: a character the switch of tokenize has no
\* case for (a NUL among them) between two texts of whole tokens
Unrecognized == {"@", "$", "?", NUL}

Befores == { <<>>, <<"x">>, <<"x", " ", "=", " ", "1", "\n">>, <<"1", " ", "+", " ">> }

Afters == { <<>>, <<"y">>, <<" ", "=", " ", "2">>, <<"\n", "y">> }

TokenizeCalls ==
  {[fn |-> "tokenize", before |-> b, u |-> u, after |-> a] :
     b \in Befores, u \in Unrecognized, a \in Afters}

\* the texts handed to the Parser: the name a followed by up to MaxPostfix
\* postfix operators, each a call (x) or an index [0] or [1]
MaxPostfix == 3

PostfixOps == {"(x)", "[0]", "[1]"}

PostfixText(op) ==
  CASE op = "(x)" -> <<"(", "x", ")">> [] op = "[0]" -> <<"[", "0", "]">> [] op = "[1]" -> <<"[", "1", "]">>

\* statements written one after the other on one line, a space between them
LineWords == {<<"x", " ", "=", " ", "1">>, <<"2">>, <<"p", "r", "i", "n", "t", "(", "3", ")">>, <<"y">>}

RECURSIVE JoinWords(_, _)
JoinWords(ws, k) ==
  IF k > Len(ws) THEN <<"\n">>
  ELSE (IF k > 1 THEN <<" ">> ELSE <<>>) \o ws[k] \o JoinWords(ws, k + 1)

SameLineCalls == {[fn |-> "parse", words |-> ws] : ws \in SeqsUpTo(LineWords, MaxLines)}

PostfixCalls == {[fn |-> "parse", ops |-> ops] : ops \in SeqsUpTo(PostfixOps, MaxPostfix)}

\* the text of a parse call
Postfixed(c) ==
  IF "words" \in DOMAIN c THEN JoinWords(c.words, 1)
  ELSE <<"a">> \o Concat([k \in 1..Len(c.ops) |-> PostfixText(c.ops[k])])

\* texts built from whole pieces: a line, a comment with its line break, a
\* blank line, a triple-quoted string over two lines, an ordinary string with
\* a backslash before a line break, and a NUL character
LinePiece == <<"x", "\n">>
CommentPiece == <<"#", " ", "c", "\n">>
TriplePiece == <<"\"", "\"", "\"", "a", "\n", "b", "\"", "\"", "\"">>
EscapedPiece == <<"\"", "a", "\\", "\n", "b", "\"">>

Pieces == {LinePiece, CommentPiece, <<"\n">>, TriplePiece, EscapedPiece, <<NUL>>}

PieceCalls == {[fn |-> "tokenize", pieces |-> ps] : ps \in SeqsUpTo(Pieces, MaxLines)}

\* the text of a tokenize call
TokenizeText(c) ==
  IF "pieces" \in DOMAIN c THEN Concat(c.pieces) ELSE c.before \o <<c.u>> \o c.after

\* the values an Index node is evaluated on: a is bound to the target and i
\* to the index
IndexTargets ==
  {ListV(<<>>), ListV(<<NumberV(FromInt(10))>>),
   ListV(<<NumberV(FromInt(10)), StringV(<<"b">>)>>),
   StringV(<<"a", "b">>), NumberV(FromInt(5)), NoneV, BoolV(TRUE),
   FileV(FileObject(<<"t">>, <<"r">>, FALSE))}

IndexValues ==
  {NumberV(FromInt(k)) : k \in -1..2}
  \cup {NumberV(Rat(3, 2)), NumberV(Rat(-1, 2)), NumberV(PosInf), NumberV(NegInf),
        NumberV(NaN), StringV(<<"1">>), StringV(<<"x">>), BoolV(TRUE), NoneV,
        ListV(<<NoneV>>)}

IndexCalls ==
  {[fn |-> "evaluateIndex", target |-> T, index |-> v] :
     T \in IndexTargets, v \in IndexValues}

IndexEnv(c) == [n \in {<<"a">>, <<"i">>} |-> IF n = <<"a">> THEN c.target ELSE c.index]

\* token sequences given to Parser(tokens).parse(): up to MaxTokens tokens of
\* the types below, then the EOF token
MaxTokens == 3

TokenText(type) ==
  CASE type = "IDENTIFIER" -> <<"a">>
    [] type = "NUMBER" -> <<"1">>
    [] type = "ASSIGN" -> <<"=">>
    [] type = "LPAREN" -> <<"(">>
    [] type = "RPAREN" -> <<")">>
    [] type = "LBRACKET" -> <<"[">>
    [] type = "RBRACKET" -> <<"]">>
    [] type = "COMMA" -> <<",">>
    [] type = "NEWLINE" -> <<"\n">>
    [] type = "PRINT" -> <<"p", "r", "i", "n", "t">>
    [] type = "WITH" -> <<"w", "i", "t", "h">>
    [] type = "COLON" -> <<":">>
    [] OTHER -> <<>>

TokenTypes ==
  {"IDENTIFIER", "NUMBER", "ASSIGN", "LPAREN", "RPAREN", "LBRACKET", "RBRACKET",
   "COMMA", "NEWLINE", "PRINT", "WITH", "COLON", "EOF_TOKEN"}

TokenSeq(types) ==
  [k \in 1..(Len(types) + 1) |->
     IF k <= Len(types) THEN Token(types[k], TokenText(types[k]), 1)
     ELSE Token("EOF_TOKEN", <<>>, 1)]

ParseLoopCalls ==
  {[fn |-> "parseLoop", tokens |-> TokenSeq(types)] : types \in SeqsUpTo(TokenTypes, MaxTokens) \cup {<<>>}}

Calls ==
  {[fn |-> "evaluateEval", e |-> e] : e \in Expressions(EvalAtoms) \cup {EvalExample}}
  \cup {[fn |-> "evaluateFString", e |-> e, sep |-> <<>>,
         before |-> <<"s", "u", "m", "=">>, after |-> <<>>] : e \in Expressions(RegionAtoms)}
  \cup {[fn |-> "evaluateFString", e |-> [operands |-> <<a, b>>, ops |-> <<op>>],
         sep |-> sep, before |-> o.before, after |-> o.after] :
          a \in RegionAtoms, b \in RegionAtoms, op \in Operators,
          sep \in {<<>>, <<" ">>}, o \in Outside}
  \cup {[fn |-> "toNumber", s |-> s] : s \in Strings}
  \cup TokenizeCalls
  \cup PieceCalls
  \cup PostfixCalls
  \cup IndexCalls
  \cup ParseLoopCalls
  \cup SameLineCalls

\* the brace region of a template call, and the template
Region(c) == ExprText(c.e, c.sep)
Template(c) == c.before \o <<"{">> \o Region(c) \o <<"}">> \o c.after

\* the call divides by a name that is not bound in env (which counts as 0)
DividesByUnbound(c, env) ==
  /\ c.fn = "evaluateFString"
  /\ \E k \in 1..Len(c.e.ops) :
        c.e.ops[k] \in {"/", "%"} /\ c.e.operands[k + 1] = <<"y">>
                                 /\ <<"y">> \notin DOMAIN env

InitCalls ==
  /\ interactiveMode = FALSE
  /\ out = <<>> /\ err = <<>> /\ source = <<>>
  /\ statements = <<>> /\ ip = 0 /\ result = NoneV
  /\ files = [f \in {} |-> <<>>]
  /\ stdin = <<>>
  /\ pc = "call"
  /\ call \in Calls
  /\ tokens = IF call.fn = "parseLoop" THEN call.tokens ELSE <<>>
  /\ variables \in (IF call.fn = "evaluateIndex" THEN {IndexEnv(call)} ELSE Envs)
  /\ ~DividesByUnbound(call, variables)

\* eval("<text>") evaluated by Executor::evaluateEval
CallEvaluateEval ==
  /\ pc = "call"
  /\ call.fn = "evaluateEval"
  /\ \E r \in {evaluateEval(<<LiteralExpr(ExprText(call.e, <<" ">>), "STRING")>>, Executor)} :
        /\ Becomes(r.st)
        /\ result' = r.val
        /\ err' = r.err
  /\ pc' = "returned"
  /\ UNCHANGED <<interactiveMode, source, tokens, statements, ip, call>>

\* the template evaluated by Executor::evaluateFString
CallEvaluateFString ==
  /\ pc = "call"
  /\ call.fn = "evaluateFString"
  /\ result' = evaluateFString(FStringExpr(Template(call)), variables)
  /\ pc' = "returned"
  /\ UNCHANGED <<interactiveMode, variables, out, err, stdin, files, source, tokens,
                 statements, ip, call>>

\* Value(s).toNumber()
CallToNumber ==
  /\ pc = "call"
  /\ call.fn = "toNumber"
  /\ result' = NumberV(toNumber(StringV(call.s)))
  /\ pc' = "returned"
  /\ UNCHANGED <<interactiveMode, variables, out, err, stdin, files, source, tokens,
                 statements, ip, call>>

\* Lexer(text).tokenize()
CallTokenize ==
  /\ pc = "call"
  /\ call.fn = "tokenize"
  /\ source' = TokenizeText(call)
  /\ tokens' = tokenize(TokenizeText(call))
  /\ pc' = "returned"
  /\ UNCHANGED <<interactiveMode, variables, out, err, stdin, files, statements, ip,
                 call, result>>

\* Lexer(text).tokenize(), then Parser(tokens).parse()
CallParse ==
  /\ pc = "call"
  /\ call.fn = "parse"
  /\ source' = Postfixed(call)
  /\ tokens' = tokenize(Postfixed(call))
  /\ statements' = parse(tokenize(Postfixed(call)))
  /\ pc' = "returned"
  /\ UNCHANGED <<interactiveMode, variables, out, err, stdin, files, ip, call, result>>

\* a[i] evaluated by Executor::evaluateIndex
CallEvaluateIndex ==
  /\ pc = "call"
  /\ call.fn = "evaluateIndex"
  /\ \E r \in evaluateIndexOutcomes(IndexExpr(IdentifierExpr(<<"a">>),
                                              IdentifierExpr(<<"i">>)), Executor) :
        /\ Becomes(r.st)
        /\ result' = r.val
        /\ err' = r.err
  /\ pc' = "returned"
  /\ UNCHANGED <<interactiveMode, source, tokens, statements, ip, call>>

\* one turn of the while loop of Parser(tokens).parse(); ip is the cursor
ParseLoopTurn ==
  /\ pc = "call"
  /\ call.fn = "parseLoop"
  /\ ~isAtEnd(tokens, ip)
  /\ \E turn \in {parseTurn(tokens, ip, statements)} :
        /\ ip' = turn.cur
        /\ statements' = turn.statements
  /\ UNCHANGED <<pc, interactiveMode, variables, out, err, stdin, files, source, tokens,
                 call, result>>

\* the cursor is at the end: parse() returns the statements
ParseLoopEnd ==
  /\ pc = "call"
  /\ call.fn = "parseLoop"
  /\ isAtEnd(tokens, ip)
  /\ pc' = "returned"
  /\ UNCHANGED <<interactiveMode, variables, out, err, stdin, files, source, tokens,
                 statements, ip, call, result>>

NextCalls ==
  \/ CallEvaluateEval
  \/ CallEvaluateFString
  \/ CallToNumber
  \/ CallTokenize
  \/ CallParse
  \/ CallEvaluateIndex
  \/ ParseLoopTurn
  \/ ParseLoopEnd

CallSpec == InitCalls /\ [][NextCalls]_vars

(***************************************************************************)
(* Properties                                                              *)
(***************************************************************************)
IsPrefix(s, t) == Len(s) <= Len(t) /\ SubSeq(t, 1, Len(s)) = s
IsSuffix(s, t) == Len(s) <= Len(t) /\ SubSeq(t, Len(t) - Len(s) + 1, Len(t)) = s

\* the lines of a text in which every line ends with a line break
RECURSIVE SplitLines(_, _, _)
SplitLines(text, i, line) ==
  IF i > Len(text) THEN <<>>
  ELSE IF text[i] = "\n" THEN <<line>> \o SplitLines(text, i + 1, <<>>)
  ELSE SplitLines(text, i + 1, Append(line, text[i]))

\* the script's lines, when the script is one of LinePrograms
ScriptLines == IF source \in LinePrograms THEN SplitLines(source, 1, <<>>) ELSE <<>>

LinesFrom(ls, k) == SubSeq(ls, k, Len(ls))
LinesBefore(ls, k) == SubSeq(ls, 1, k - 1)

\* line k of ls is malformed, and well-formed lines follow it
MalformedThenWellFormed(ls, k) ==
  /\ k \in 1..(Len(ls) - 1)
  /\ ls[k] = MalformedLine
  /\ \A j \in (k + 1)..Len(ls) : ls[j] # MalformedLine

\* line j of ls, after line k, belongs to the body of a with statement: a
\* with header precedes it with no blank line in between
InWithBody(ls, k, j) ==
  \E w \in (k + 1)..(j - 1) :
     ls[w] = WithLine /\ \A b \in (w + 1)..(j - 1) : ls[b] # BlankLine

\* what the prints after line k write when no statement raises: 5 in the
\* body of a with statement, None at top level
RECURSIVE PrintedAfter(_, _, _)
PrintedAfter(ls, k, j) ==
  IF j > Len(ls) THEN <<>>
  ELSE (IF ls[j] = PrintLine
        THEN (IF InWithBody(ls, k, j) THEN <<"5", "\n">> ELSE <<"N", "o", "n", "e", "\n">>)
        ELSE <<>>) \o PrintedAfter(ls, k, j + 1)

\* C1: when a line of the script holds a statement that fails to parse and
\* well-formed lines follow it, parse() returns statements of the lines before
\* it (not the malformed one) followed by every statement of the later lines
\* in source order, and a run that raises nothing ends with what the later
\* lines print.
C1_LaterStatementsSurvive ==
  \A k \in 1..Len(ScriptLines) :
     MalformedThenWellFormed(ScriptLines, k) =>
        /\ pc \in {"execute", "exit"} =>
             \E n \in 0..Len(statements) :
                /\ IsPrefix(SubSeq(statements, 1, n),
                            parse(tokenize(JoinLines(LinesBefore(ScriptLines, k)))))
                /\ SubSeq(statements, n + 1, Len(statements))
                     = parse(tokenize(JoinLines(LinesFrom(ScriptLines, k + 1))))
        /\ (pc = "exit" /\ err = <<>>) =>
             IsSuffix(PrintedAfter(ScriptLines, k, k + 1), out)

\* a malformed first line, a print after it, and the print has run
C1_Witness ==
  /\ pc = "exit"
  /\ err = <<>>
  /\ MalformedThenWellFormed(ScriptLines, 1)
  /\ ScriptLines[2] = PrintLine
  /\ out = <<"N", "o", "n", "e", "\n">>

\* a with statement with an 'as' clause is the statement execute runs next
AtWithAs ==
  /\ pc = "execute"
  /\ ip <= Len(statements)
  /\ statements[ip].kind = "With"
  /\ statements[ip].optional_vars # <<>>

\* C2: once a with statement with an 'as NAME' clause has finished, whether its
\* body ran to completion or raised, NAME is absent from the environment.
C2_NameAbsentAfterWith ==
  [][(AtWithAs /\ ExecuteStatement) =>
        statements[ip].optional_vars \notin DOMAIN variables']_vars

\* the script has no malformed line and no with header in the body of
\* another with statement
PlainWithScript ==
  /\ ScriptLines # <<>>
  /\ \A j \in 1..Len(ScriptLines) :
        /\ ScriptLines[j] # MalformedLine
        /\ ScriptLines[j] = WithLine => ~InWithBody(ScriptLines, 0, j)

\* what the prints of ls write if the body of a with statement is the one line
\* after its header
RECURSIVE PrintedOneLineBody(_, _)
PrintedOneLineBody(ls, j) ==
  IF j > Len(ls) THEN <<>>
  ELSE (IF ls[j] = PrintLine
        THEN (IF j > 1 /\ ls[j - 1] = WithLine
              THEN <<"5", "\n">> ELSE <<"N", "o", "n", "e", "\n">>)
        ELSE <<>>) \o PrintedOneLineBody(ls, j + 1)

Shown(a) == IF a[1] = "\"" THEN SubSeq(a, 2, Len(a) - 1) ELSE a

\* C4: print(a, b) as a statement writes toString(a) toString(b) and one
\* newline; print(a, b) in the place of an expression writes toString(a), one
\* space, toString(b) and one newline, and yields None.
C4_PrintForms ==
  pc = "exit" =>
     \A a, b \in PrintArgs :
        /\ source = PrintStatementProgram(a, b) =>
             out = Shown(a) \o Shown(b) \o <<"\n">>
        /\ source = PrintCallProgram(a, b) =>
             out = Shown(a) \o <<" ">> \o Shown(b) \o <<"\n">> \o <<"N", "o", "n", "e", "\n">>

\* C5: a list literal of n elements directly followed by [i] evaluates to the
\* element at position i when 0 <= i < n, and raises 'Index out of range'
\* otherwise.
C5_LiteralIndexed ==
  pc \in {"exit", "failed"} =>
     \A n \in 1..MaxElems, i \in 0..(MaxElems + 2) :
        source = IndexLiteralProgram(n, i) =>
           IF i < n
           THEN out = FormatInt(10 * (i + 1)) \o <<"\n">> /\ err = <<>>
           ELSE err = <<"Error: ", "Index out of range", "\n">>

\* the list value [10, 20, ..] of n numbers
Tens(n) == [k \in 1..n |-> NumberV(FromInt(10 * k))]

\* C6: with lists A and B bound to a and b, a + b is the list of A's elements
\* followed by B's (its length the sum of theirs), and a and b are still bound
\* to A and B afterwards.
C6_ListSum ==
  pc = "exit" =>
     \A n, m \in 0..MaxElems :
        source = ConcatProgram(n, m) =>
           /\ variables[<<"c">>] = ListV(Tens(n) \o Tens(m))
           /\ Len(variables[<<"c">>].list_value) = n + m
           /\ variables[<<"a">>] = ListV(Tens(n))
           /\ variables[<<"b">>] = ListV(Tens(m))

\* the sum of a one-element list and a two-element list has been bound to c
C6_Witness ==
  /\ pc = "exit"
  /\ source = ConcatProgram(1, 2)
  /\ variables[<<"c">>].list_value = Tens(1) \o Tens(2)

\* ---- the evaluator's functions on their own (CallSpec) ----

\* the number a literal operand denotes
LiteralValue(a) ==
  CASE a = <<"1", ".", "5">> -> Rat(3, 2)
    [] a = <<"2">> -> FromInt(2)
    [] a = <<"3">> -> FromInt(3)
    [] a = <<"4">> -> FromInt(4)

IsName(a) == a \in {<<"x">>, <<"y">>}

OperandValue(a, env) == IF IsName(a) THEN env[a].number ELSE LiteralValue(a)

Arith(op, a, b) ==
  CASE op = "+" -> RAdd(a, b)
    [] op = "-" -> RSub(a, b)
    [] op = "*" -> RMul(a, b)
    [] op = "/" -> RDiv(a, b)
    [] op = "%" -> RFmod(a, b)

\* the products of an expression: every run of operands joined by * / % is
\* replaced by its value, taken left to right; [vals, ops] with the + and -
\* that are left
RECURSIVE Products(_, _, _, _, _)
Products(e, env, k, vals, ops) ==
  IF k > Len(e.ops) THEN [vals |-> vals, ops |-> ops]
  ELSE IF e.ops[k] \in {"*", "/", "%"}
  THEN Products(e, env, k + 1,
                [vals EXCEPT ![Len(vals)] =
                   Arith(e.ops[k], @, OperandValue(e.operands[k + 1], env))],
                ops)
  ELSE Products(e, env, k + 1,
                Append(vals, OperandValue(e.operands[k + 1], env)),
                Append(ops, e.ops[k]))

\* the sums of the products, taken left to right
RECURSIVE Sums(_, _, _)
Sums(p, k, acc) ==
  IF k > Len(p.ops) THEN acc
  ELSE Sums(p, k + 1, Arith(p.ops[k], acc, p.vals[k + 1]))

\* the value of the expression e in env by the rules of arithmetic
Reference(e, env) ==
  Local(Products(e, env, 1, <<OperandValue(e.operands[1], env)>>, <<>>),
        LAMBDA p : Sums(p, 1, p.vals[1]))

Returned(fn) == pc = "returned" /\ call.fn = fn

\* C7: eval(s) of an expression text yields the value the expression has in
\* the caller's variables, * / % binding tighter than + - and operators of
\* one level grouping left to right; eval("2 + 3 * 4") yields 14.
C7_EvalValue ==
  Returned("evaluateEval") =>
     /\ err = <<>>
     /\ result = NumberV(Reference(call.e, variables))
     /\ call.e = EvalExample => result = NumberV(FromInt(14))

\* eval("2 + 3 * 4") has returned 14
C7_Witness ==
  /\ Returned("evaluateEval")
  /\ call.e = EvalExample
  /\ result = NumberV(FromInt(14))

\* every name of the call's brace region is bound in variables
RegionBound ==
  \A k \in 1..Len(call.e.operands) :
     IsName(call.e.operands[k]) => call.e.operands[k] \in DOMAIN variables

\* the value the main parser and evaluator give the text
MainValue(text) ==
  evaluateExpression(parseExpression(tokenize(text), 0).node, Executor).val

\* a text of Outside with its backslash escapes replaced by the characters
\* they denote
Expanded(t) ==
  CASE t = <<"a", "\\", "t", "b">> -> <<"a", "\t", "b">>
    [] t = <<"\\", "{", "!">> -> <<"{", "!">>
    [] t = <<"\\", "n">> -> <<"\n">>
    [] OTHER -> t

\* C8 as stated: the text outside the brace region is copied as it is, and
\* the region (number literals, names bound to numbers, + - * / %) is replaced
\* by toString of the value the main parser and evaluator give its text.
C8_VerbatimOutside ==
  (Returned("evaluateFString") /\ RegionBound) =>
     result = StringV(call.before \o toString(MainValue(Region(call))) \o call.after)

\* C8 amended: the text outside the brace region is copied with its backslash
\* escapes replaced by the characters they denote (as it is when it holds no
\* backslash), and the region is replaced by toString of the value the main
\* parser and evaluator give its text.
C8_EscapesExpandedOutside ==
  (Returned("evaluateFString") /\ RegionBound) =>
     result = StringV(Expanded(call.before) \o toString(MainValue(Region(call)))
                      \o Expanded(call.after))

\* f"sum={x+y}" with x = 2 and y = 3 has given sum=5
C8_Witness ==
  /\ Returned("evaluateFString")
  /\ Template(call) = <<"s", "u", "m", "=", "{", "x", "+", "y", "}">>
  /\ <<"y">> \in DOMAIN variables
  /\ result = StringV(<<"s", "u", "m", "=", "5">>)

\* C9: a brace region the mini-evaluator cannot resolve (it holds a name that
\* is not bound) is rendered as '{', the region's text as written, '}'.
C9_UnresolvedRendered ==
  (Returned("evaluateFString") /\ ~RegionBound) =>
     result = StringV(Expanded(call.before) \o <<"{">> \o Region(call) \o <<"}">>
                      \o Expanded(call.after))

\* a decimal literal: digits with at most one '.'
DecimalLiteral(s) ==
  /\ \E i \in 1..Len(s) : isdigit(s[i])
  /\ \A i \in 1..Len(s) : isdigit(s[i]) \/ s[i] = "."
  /\ Cardinality({i \in 1..Len(s) : s[i] = "."}) <= 1

\* a numeric literal: a decimal literal, with or without a sign in front and
\* blanks around it
NumericLiteral(s) ==
  \E i \in 1..Len(s), j \in 1..Len(s) :
     /\ \A k \in 1..(i - 1) : s[k] = " "
     /\ \A k \in (j + 1)..Len(s) : s[k] = " "
     /\ \/ DecimalLiteral(SubSeq(s, i, j))
        \/ s[i] \in {"+", "-"} /\ DecimalLiteral(SubSeq(s, i + 1, j))

\* C10: toNumber of a string that is not a numeric literal, a numeric prefix
\* followed by other characters included, is 0.
C10_NonNumericIsZero ==
  (Returned("toNumber") /\ ~NumericLiteral(call.s)) => result = NumberV(Zero)

\* ---- exec and eval in the caller's environment ----

\* C11: exec and eval run against the caller's environment: after x = v, the
\* binding y = x + 1 written inside exec'd code reads x and is visible to the
\* caller's later statements (y is v + 1 from the third statement on), and
\* eval("x + y") reads the bindings made before it (it prints 2v + 1).
C11_SharedEnvironment ==
  \A v \in 1..MaxElems :
     source = ExecProgram(v) =>
        /\ (pc = "execute" /\ ip > 2) =>
              /\ {<<"x">>, <<"y">>} \subseteq DOMAIN variables
              /\ variables[<<"x">>] = NumberV(FromInt(v))
              /\ variables[<<"y">>] = NumberV(FromInt(v + 1))
        /\ pc = "exit" =>
              /\ err = <<>>
              /\ out = FormatInt(2 * v + 1) \o <<"\n">> \o FormatInt(v + 1) \o <<"\n">>

\* the program with x = 2 has run: the caller printed 5 and then 3
C11_Witness ==
  /\ pc = "exit"
  /\ source = ExecProgram(2)
  /\ out = <<"5", "\n", "3", "\n">>

\* ---- faults ----

\* what the driver writes to std::cerr for the fault of FaultLine
FaultReport ==
  <<"Error: ", "Function ", "n", "o", "s", "u", "c", "h", " is not defined", "\n">>

\* the lines ls run from line i up to the first FaultLine: what the prints have
\* written, whether x is bound, whether a fault was raised
RECURSIVE RanUntilFault(_, _, _)
RanUntilFault(ls, i, r) ==
  IF i > Len(ls) THEN r
  ELSE IF ls[i] = FaultLine THEN [r EXCEPT !.failed = TRUE]
  ELSE IF ls[i] = AssignLine THEN RanUntilFault(ls, i + 1, [r EXCEPT !.bound = TRUE])
  ELSE RanUntilFault(ls, i + 1,
         [r EXCEPT !.out = @ \o (IF r.bound THEN <<"7", "\n">>
                                 ELSE <<"N", "o", "n", "e", "\n">>)])

FaultScript ==
  RanUntilFault(SplitLines(source, 1, <<>>), 1,
                [out |-> <<>>, bound |-> FALSE, failed |-> FALSE])

\* executeFile has returned
FileRunOver == ~interactiveMode /\ pc \in {"exit", "failed"}

\* a turn of execute in which the statement raises a fault
FaultStep == ExecuteStatement /\ err' # err

\* C12: when a statement raises a fault, the later statements of that execute
\* call are not executed and what the earlier ones wrote and bound remains; in
\* file mode the fault is reported once and the run fails (main returns 1), in
\* interactive mode the fault is reported and the session goes on with the
\* next line, the bindings made so far kept.
C12_FaultStopsExecute ==
  /\ []((FileRunOver /\ source \in FaultPrograms) =>
          /\ out = FaultScript.out
          /\ (<<"x">> \in DOMAIN variables) = FaultScript.bound
          /\ FaultScript.bound => variables[<<"x">>] = NumberV(FromInt(7))
          /\ IF FaultScript.failed
             THEN pc = "failed" /\ err = FaultReport
             ELSE pc = "exit" /\ err = <<>>)
  /\ [][(FaultStep /\ interactiveMode) =>
          /\ pc' = "prompt"
          /\ stdin' = stdin
          /\ IsPrefix(out, out')
          /\ \A n \in DOMAIN variables :
                n \in DOMAIN variables' /\ variables'[n] = variables[n]]_vars

\* file mode: x = 7, print(x), then the fault: the run has failed with one
\* report, the print written and x bound
C12_Witness ==
  /\ pc = "failed"
  /\ source = JoinLines(<<AssignLine, PrintXLine, FaultLine>>)
  /\ out = <<"7", "\n">>
  /\ err = FaultReport
  /\ variables[<<"x">>] = NumberV(FromInt(7))

\* ---- the lexer on its own ----

\* the types and values of tokens, without the line numbers
Unlined(toks) == [i \in 1..Len(toks) |-> [type |-> toks[i].type, value |-> toks[i].value]]

WithoutEOF(toks) == SubSeq(toks, 1, Len(toks) - 1)

\* C13: tokenize of any text, an unrecognized character or a NUL in it
\* included, returns without raising; its result ends with the one EOF token
\* it holds; and an unrecognized character is skipped: the tokens are those
\* of the text before it followed by those of the text after it.
C13_UnrecognizedSkipped ==
  Returned("tokenize") =>
     /\ err = <<>>
     /\ tokens # <<>>
     /\ \A i \in 1..Len(tokens) : (tokens[i].type = "EOF_TOKEN") = (i = Len(tokens))
     /\ "u" \in DOMAIN call =>
           Unlined(tokens) = Unlined(WithoutEOF(tokenize(call.before)))
                               \o Unlined(tokenize(call.after))

\* the same for the unrecognized characters other than NUL
NonNulSkipped ==
  (Returned("tokenize") /\ "u" \in DOMAIN call /\ call.u # NUL) =>
     /\ \A i \in 1..Len(tokens) : (tokens[i].type = "EOF_TOKEN") = (i = Len(tokens))
     /\ Unlined(tokens) = Unlined(WithoutEOF(tokenize(call.before)))
                            \o Unlined(tokenize(call.after))

\* ---- input ----

\* C14: x = input(...) in a script reaches the input built-in: the prompt, if
\* one is given, is written, one line is read from std::cin and x is bound to
\* that line as a String (the print after it writes the line).
C14_InputReached ==
  \A prompt \in InputPrompts :
     (FileRunOver /\ source = InputProgram(prompt)) =>
        /\ pc = "exit"
        /\ stdin = <<>>
        /\ <<"x">> \in DOMAIN variables
        /\ variables[<<"x">>] = StringV(TypedAnswer)
        /\ out = (IF prompt = <<>> THEN <<>> ELSE <<"p">>) \o TypedAnswer \o <<"\n">>

\* ---- the parser on its own ----

\* the expression that applies the postfix operators ops[k..] to base, one
\* after the other
RECURSIVE Applied(_, _, _)
Applied(base, ops, k) ==
  IF k > Len(ops) THEN base
  ELSE Applied(CASE ops[k] = "(x)" -> CallExpr(base, <<IdentifierExpr(<<"x">>)>>)
                 [] ops[k] = "[0]" -> IndexExpr(base, LiteralExpr(<<"0">>, "NUMBER"))
                 [] ops[k] = "[1]" -> IndexExpr(base, LiteralExpr(<<"1">>, "NUMBER")),
               ops, k + 1)

IndexChainNested ==
  (Returned("parse") /\ "ops" \in DOMAIN call
     /\ \A k \in 1..(Len(call.ops) - 1) : call.ops[k] # "(x)") =>
     statements = <<ExprStmt(Applied(IdentifierExpr(<<"a">>), call.ops, 1))>>

\* ---- file handles ----

\* the handle open(FileName, mode) builds, open or closed
Handle(mode, open) ==
  FileV([filename |-> FileName, mode |-> mode,
         is_binary |-> \E i \in 1..Len(mode) : mode[i] = "b", is_open |-> open])

\* C16: after g = fh both variables hold a handle of their own with the same
\* four fields; close called through fh sets only fh's open flag to false: g
\* still reports open (bool(g) is True, bool(fh) is False), and the path, the
\* mode and the binary flag of both are as open built them.
C16_CopiesIndependent ==
  \A mode \in Modes :
     source = CopyHandleProgram(mode) =>
        /\ (pc = "execute" /\ ip = 3) =>
              /\ {<<"f", "h">>, <<"g">>} \subseteq DOMAIN variables
              /\ variables[<<"f", "h">>] = Handle(mode, TRUE)
              /\ variables[<<"g">>] = Handle(mode, TRUE)
        /\ ((pc = "execute" /\ ip > 3) \/ FileRunOver) =>
              /\ {<<"f", "h">>, <<"g">>} \subseteq DOMAIN variables
              /\ variables[<<"f", "h">>] = Handle(mode, FALSE)
              /\ variables[<<"g">>] = Handle(mode, TRUE)
              /\ ~toBoolean(variables[<<"f", "h">>])
              /\ toBoolean(variables[<<"g">>])
        /\ FileRunOver =>
              /\ pc = "exit"
              /\ out = S_False \o <<"\n">> \o S_True \o <<"\n">>

\* the handle opened with "ab" was copied and closed through fh
C16_Witness ==
  /\ pc = "exit"
  /\ source = CopyHandleProgram(<<"a", "b">>)
  /\ variables[<<"f", "h">>] = Handle(<<"a", "b">>, FALSE)
  /\ variables[<<"g">>] = Handle(<<"a", "b">>, TRUE)
  /\ out = S_False \o <<"\n">> \o S_True \o <<"\n">>

\* the mode makes a write append
Appends(mode) == \E i \in 1..Len(mode) : mode[i] = "a"

\* C17: each write through a handle acts on the file as it is then, by the
\* handle's mode: with a mode containing 'a' the payload is added to the
\* file's content, otherwise the content becomes the payload; after the
\* writes p1, p2 the file holds old content + p1 + p2 for an appending mode
\* and only p2 otherwise; each write returns the length of its payload.
C17_WriteCycles ==
  \A mode \in Modes, p1 \in Payloads, p2 \in Payloads :
     source = WriteProgram(mode, p1, p2) =>
        /\ (pc = "execute" /\ ip = 3) =>
              /\ files[FileName] = IF Appends(mode) THEN OldContent \o p1 ELSE p1
              /\ <<"n">> \in DOMAIN variables
              /\ variables[<<"n">>] = NumberV(FromInt(Len(p1)))
        /\ FileRunOver =>
              /\ pc = "exit"
              /\ files[FileName] = IF Appends(mode) THEN OldContent \o p1 \o p2 ELSE p2
              /\ {<<"n">>, <<"m">>} \subseteq DOMAIN variables
              /\ variables[<<"n">>] = NumberV(FromInt(Len(p1)))
              /\ variables[<<"m">>] = NumberV(FromInt(Len(p2)))

\* ab then c written through a handle opened with "w": the file holds c
C17_Witness ==
  /\ pc = "exit"
  /\ source = WriteProgram(<<"w">>, <<"a", "b">>, <<"c">>)
  /\ files[FileName] = <<"c">>
  /\ variables[<<"n">>] = NumberV(FromInt(2))

\* ---- exec of a code text ----

\* the lines of ls that parse
RECURSIVE WellFormed(_)
WellFormed(ls) ==
  IF ls = <<>> THEN <<>>
  ELSE (IF Head(ls) = MalformedLine THEN <<>> ELSE <<Head(ls)>>) \o WellFormed(Tail(ls))

\* the code of the script ExecCodeProgram(ls) run up to its first fault
ExecCode(ls) ==
  RanUntilFault(WellFormed(ls), 1, [out |-> <<>>, bound |-> FALSE, failed |-> FALSE])

\* what the driver writes to std::cerr for the fault of FaultLine in exec'd code
ExecFaultReport == <<"Error: ", "exec error: ">> \o Tail(FaultReport)

\* C18: exec(code) executes the statements parsed from code in order and
\* returns None; when one raises a fault, exec raises it with 'exec error: '
\* in front of the message, the earlier statements having taken effect and
\* the later ones not run; lines of code that fail to parse are discarded
\* without a fault.
C18_ExecRunsCode ==
  \A ls \in SeqsUpTo(CodeLines, MaxLines) :
     (FileRunOver /\ source = ExecCodeProgram(ls)) =>
        /\ (<<"x">> \in DOMAIN variables) = ExecCode(ls).bound
        /\ ExecCode(ls).bound => variables[<<"x">>] = NumberV(FromInt(7))
        /\ IF ExecCode(ls).failed
           THEN /\ pc = "failed"
                /\ err = ExecFaultReport
                /\ out = ExecCode(ls).out
                /\ <<"r">> \notin DOMAIN variables
           ELSE /\ pc = "exit"
                /\ err = <<>>
                /\ <<"r">> \in DOMAIN variables
                /\ variables[<<"r">>] = NoneV
                /\ out = ExecCode(ls).out \o S_None \o <<"\n">>
                           \o (IF ExecCode(ls).bound THEN <<"7">> ELSE S_None) \o <<"\n">>

\* exec of x = 7, a line that does not parse, and the fault: x is bound and
\* the fault reported with the prefix
C18_Witness ==
  /\ pc = "failed"
  /\ source = ExecCodeProgram(<<AssignLine, MalformedLine, FaultLine>>)
  /\ variables[<<"x">>] = NumberV(FromInt(7))
  /\ err = ExecFaultReport

\* ---- faults inside eval ----

\* the piece of the message that names the fault of a text of FaultTexts
FaultMessage(text) ==
  CASE text = <<"a", "[", "5", "]">> -> "Index out of range"
    [] text = <<"n", "o", "s", "u", "c", "h", "(", "1", ")">> -> " is not defined"
    [] text = <<"x", "[", "0", "]">> -> "Indexing not supported for this type"

\* C19: a fault raised while the expression text handed to eval is evaluated
\* (index out of range, undefined function, unsupported indexing) leaves eval
\* as a failure of the caller: the statement that called eval fails with the
\* fault's message, r is not bound and nothing is printed.
C19_EvalFaultPropagates ==
  \A text \in FaultTexts :
     (FileRunOver /\ source = EvalProgram(text)) =>
        /\ pc = "failed"
        /\ \E i \in 1..Len(err) : err[i] = FaultMessage(text)
        /\ <<"r">> \notin DOMAIN variables
        /\ out = <<>>

\* the texts that raise no fault: a[0] evaluates to 10, and the text that does
\* not parse goes to the template mini-evaluator, which gives it back in braces
EvalWithoutFault ==
  FileRunOver =>
     /\ source = EvalProgram(<<"a", "[", "0", "]">>) => out = <<"1", "0", "\n">> /\ pc = "exit"
     /\ source = EvalProgram(<<"1", " ", "+">>) => out = <<"{", "1", " ", "+", "}", "\n">> /\ pc = "exit"

\* ---- comparisons ----

\* the token type of a comparison operator
CompareType(op) ==
  CASE op = <<"=", "=">> -> "EQUAL" [] op = <<"!", "=">> -> "NOT_EQUAL"
    [] op = <<"<">> -> "LESS" [] op = <<">">> -> "GREATER"

\* what evaluating an operand of CompareOperands writes
Written(a) ==
  CASE a = <<"e", "x", "e", "c", "(", "\"", "p", "r", "i", "n", "t", "(", "1", ")", "\"", ")">> -> <<"1", "\n">>
    [] a = <<"e", "x", "e", "c", "(", "\"", "p", "r", "i", "n", "t", "(", "2", ")", "\"", ")">> -> <<"2", "\n">>
    [] OTHER -> <<>>

\* the expression an operand text parses to on its own
OperandNode(a) == parseExpression(tokenize(a), 0).node

\* C20: a == b, a != b, a < b and a > b each parse as the binary expression
\* of the two operands and evaluate to None without a fault, the left operand
\* evaluated first and the right one after it.
C20_ComparisonIsNone ==
  \A a \in CompareOperands, op \in CompareOps, b \in CompareOperands :
     source = CompareProgram(a, op, b) =>
        /\ pc \in {"execute", "exit", "failed"} =>
              /\ Len(statements) = 2
              /\ statements[1] =
                   AssignStmt(<<"r">>, BinaryExpr(OperandNode(a), CompareType(op),
                                                  OperandNode(b)))
        /\ FileRunOver =>
              /\ pc = "exit"
              /\ err = <<>>
              /\ <<"r">> \in DOMAIN variables
              /\ variables[<<"r">>] = NoneV
              /\ out = Written(a) \o Written(b) \o S_None \o <<"\n">>

\* exec("print(1)") < exec("print(2)") has written 1, then 2, and given None
C20_Witness ==
  /\ pc = "exit"
  /\ source = CompareProgram(<<"e", "x", "e", "c", "(", "\"", "p", "r", "i", "n", "t", "(", "1", ")", "\"", ")">>, <<"<">>, <<"e", "x", "e", "c", "(", "\"", "p", "r", "i", "n", "t", "(", "2", ")", "\"", ")">>)
  /\ variables[<<"r">>] = NoneV
  /\ out = <<"1", "\n", "2", "\n", "N", "o", "n", "e", "\n">>

\* ---- line breaks ----

\* the number of members of the sequence s that satisfy Test
Count(s, Test(_)) == Cardinality({i \in 1..Len(s) : Test(s[i])})

\* the pieces of ps before its first NUL piece
RECURSIVE BeforeNul(_)
BeforeNul(ps) ==
  IF ps = <<>> \/ Head(ps) = <<NUL>> THEN <<>> ELSE <<Head(ps)>> \o BeforeNul(Tail(ps))

\* the piece is a string literal
IsLiteral(piece) == piece \in {TriplePiece, EscapedPiece}

NewlineTokens == Count(tokens, LAMBDA t : t.type = "NEWLINE")

C22_RenderDependsOnOpenFlag ==
  \A mode \in Modes :
     (FileRunOver /\ source = CloseRenderProgram(mode)) =>
        /\ pc = "exit"
        /\ ~toBoolean(variables[<<"f", "h">>])
        /\ Len(SplitLines(out, 1, <<>>)) = 2
        /\ SplitLines(out, 1, <<>>)[1] # SplitLines(out, 1, <<>>)[2]

\* ---- open ----

\* the files a run of an OpenProgram starts with
FilesAtStart == [f \in {ScriptName, FileName} |-> IF f = ScriptName THEN source ELSE OldContent]

ReadFaultReport ==
  <<"Error: ", "File read error: ", "Could not open file for reading: ">>
  \o MissingName \o <<"\n">>

\* C23: open(path, mode) leaves the files as they are and does not fail
\* whether or not a file has the path: it returns an open handle with the
\* path, the mode ("r" when none is given) and the binary flag set iff the
\* mode holds a 'b'; a path that names no file faults only at the read.
C23_OpenTouchesNothing ==
  \A name \in OpenNames, mode \in OpenModes :
     source = OpenProgram(name, mode) =>
        /\ ((pc = "execute" /\ ip >= 2) \/ FileRunOver) =>
              /\ <<"f", "h">> \in DOMAIN variables
              /\ variables[<<"f", "h">>] =
                   FileV([filename |-> name,
                          mode |-> IF mode = <<>> THEN <<"r">> ELSE mode,
                          is_binary |-> mode = <<"r", "b">>,
                          is_open |-> TRUE])
              /\ files = FilesAtStart
        /\ (pc = "execute" /\ ip \in {2, 3}) => err = <<>>
        /\ FileRunOver =>
              IF name = FileName
              THEN /\ pc = "exit"
                   /\ err = <<>>
                   /\ out = S_True \o <<"\n">> \o OldContent \o <<"\n">>
              ELSE /\ pc = "failed"
                   /\ err = ReadFaultReport
                   /\ out = S_True \o <<"\n">>

\* a path that names no file was opened in binary mode, reported open, and
\* the read through the handle faulted
C23_Witness ==
  /\ source = OpenProgram(MissingName, <<"r", "b">>)
  /\ pc = "failed"
  /\ <<"f", "h">> \in DOMAIN variables
  /\ variables[<<"f", "h">>].file_object.is_binary
  /\ out = S_True \o <<"\n">>
  /\ err = ReadFaultReport

\* ---- the subscript ----

\* the index value v selects an element of the list T
Selects(T, v) ==
  /\ IsFinite(toNumber(v))
  /\ Trunc(toNumber(v)) >= 0
  /\ Trunc(toNumber(v)) < Len(T.list_value)

\* what evaluating a[i] gave, for a call with target T and index value v
IndexedAsSpecified(T, v) ==
  /\ variables = IndexEnv(call)
  /\ out = <<>>
  /\ DOMAIN files = {}
  /\ IF T.type # "LIST"
     THEN err = <<"Indexing not supported for this type">>
     ELSE IF Selects(T, v)
     THEN err = <<>> /\ result = T.list_value[Trunc(toNumber(v)) + 1]
     ELSE err = <<"Index out of range">>

\* C24: evaluating an Index node with target value T and index value v gives
\* T's element i, i being toNumber(v) truncated toward zero, when T is a list
\* and 0 <= i < len(T), the fault "Index out of range" for any other index
\* into a list, and the fault "Indexing not supported for this type" when T
\* is not a list; the environment is unchanged in every case.
C24_IndexElementOrFault ==
  Returned("evaluateIndex") => IndexedAsSpecified(call.target, call.index)

\* the same for the index values whose number is finite
FiniteIndexElementOrFault ==
  (Returned("evaluateIndex") /\ IsFinite(toNumber(call.index))) =>
     IndexedAsSpecified(call.target, call.index)

\* ---- the callee of a call ----

\* every Call node of the tree has an Identifier node as its callee
RECURSIVE CalleesAreIdentifiers(_)
CalleesAreIdentifiers(node) ==
  CASE node.kind = "Call" ->
         /\ node.callee.kind = "Identifier"
         /\ \A k \in 1..Len(node.arguments) : CalleesAreIdentifiers(node.arguments[k])
    [] node.kind = "Index" ->
         CalleesAreIdentifiers(node.array) /\ CalleesAreIdentifiers(node.index)
    [] node.kind = "Binary" ->
         CalleesAreIdentifiers(node.left) /\ CalleesAreIdentifiers(node.right)
    [] node.kind = "List" ->
         \A k \in 1..Len(node.elements) : CalleesAreIdentifiers(node.elements[k])
    [] node.kind = "Print" ->
         \A k \in 1..Len(node.expressions) : CalleesAreIdentifiers(node.expressions[k])
    [] node.kind = "Assign" -> CalleesAreIdentifiers(node.value)
    [] node.kind = "ExprStmt" -> CalleesAreIdentifiers(node.expression)
    [] node.kind = "With" ->
         /\ CalleesAreIdentifiers(node.context_expr)
         /\ \A k \in 1..Len(node.body) : CalleesAreIdentifiers(node.body[k])
    [] OTHER -> TRUE

\* C25: every call expression the parser produces has an Identifier node as
\* its callee, so the downcast of the callee in evaluateCall never meets
\* another node kind and never yields the null pointer it then dereferences.
C25_CalleeIsIdentifier ==
  source \in CalleePrograms =>
     /\ \A k \in 1..Len(statements) : CalleesAreIdentifiers(statements[k])
     /\ pc # "crashed"

\* the calls whose callee is written as a name parse and run as claimed
NamedCalleeIsIdentifier ==
  \A line \in {<<"l", "e", "n", "(", "a", ")">>, <<"a", "(", "1", ")">>} :
     source = CalleeProgram(line) =>
        /\ \A k \in 1..Len(statements) : CalleesAreIdentifiers(statements[k])
        /\ pc # "crashed"

\* ---- termination ----

RECURSIVE FirstEOF(_, _)
FirstEOF(toks, k) == IF toks[k + 1].type = "EOF_TOKEN" THEN k ELSE FirstEOF(toks, k + 1)

\* C27: on every token sequence that ends with an EOF token parse()
\* terminates: each turn of its statement loop, whether the statement parsed
\* or was recovered from, moves the cursor forward by at least one token or
\* to the EOF token; the cursor is never before the first token nor past the
\* EOF token, and parse returns with the cursor on the EOF token.
C27_ParseAdvances ==
  call.fn = "parseLoop" =>
     /\ ip >= 0
     /\ ip <= FirstEOF(tokens, 0)
     /\ Len(statements) <= ip
     /\ (pc = "call" /\ ~isAtEnd(tokens, ip)) =>
           \/ parseTurn(tokens, ip, statements).cur > ip
           \/ isAtEnd(tokens, parseTurn(tokens, ip, statements).cur)
     /\ Returned("parseLoop") =>
           /\ ip = FirstEOF(tokens, 0)
           /\ statements = parse(tokens)

\* recovery from ")" at the start of a line moved the cursor over the line,
\* and the statement on the next line was parsed
C27_Witness ==
  /\ Returned("parseLoop")
  /\ Len(tokens) = 4
  /\ tokens[1].type = "RPAREN"
  /\ tokens[2].type = "NEWLINE"
  /\ tokens[3].type = "IDENTIFIER"
  /\ ip = 3
  /\ statements = <<ExprStmt(IdentifierExpr(<<"a">>))>>

\* ---- the name of a with-statement ----

\* the value of the context expression when n is bound to old
ContextValue(old, ctx) == IF ctx = <<"5">> THEN 5 ELSE old + 1

\* C28: 'with E as n' executed while n is bound overwrites the binding for
\* the body (the body prints the value of E, which was evaluated with the
\* old binding) and on normal completion leaves n unbound: the value n had
\* before is not restored, and a later print(n) writes None.
C28_WithUnbindsName ==
  \A old \in OldValues, ctx \in ContextTexts :
     source = RebindProgram(old, ctx) =>
        /\ (pc = "execute" /\ ip = 2) =>
              /\ <<"n">> \in DOMAIN variables
              /\ variables[<<"n">>] = NumberV(FromInt(old))
        /\ ((pc = "execute" /\ ip >= 3) \/ FileRunOver) =>
              /\ <<"n">> \notin DOMAIN variables
              /\ SubSeq(out, 1, Len(FormatInt(ContextValue(old, ctx))) + 1)
                   = FormatInt(ContextValue(old, ctx)) \o <<"\n">>
        /\ FileRunOver =>
              /\ pc = "exit"
              /\ err = <<>>
              /\ Len(statements) = 3
              /\ out = FormatInt(ContextValue(old, ctx)) \o <<"\n">> \o S_None \o <<"\n">>

\* n was 7, the body of 'with n + 1 as n' printed 8, and n is unbound
C28_Witness ==
  /\ source = RebindProgram(7, <<"n", " ", "+", " ", "1">>)
  /\ pc = "exit"
  /\ <<"n">> \notin DOMAIN variables
  /\ out = <<"8", "\n">> \o S_None \o <<"\n">>

\* ---- statements on one line ----

\* the statement a word of a line is
StatementOf(word) ==
  CASE word = <<"x", " ", "=", " ", "1">> -> AssignStmt(<<"x">>, LiteralExpr(<<"1">>, "NUMBER"))
    [] word = <<"2">> -> ExprStmt(LiteralExpr(<<"2">>, "NUMBER"))
    [] word = <<"p", "r", "i", "n", "t", "(", "3", ")">> -> PrintStmt(<<LiteralExpr(<<"3">>, "NUMBER")>>)
    [] word = <<"y">> -> ExprStmt(IdentifierExpr(<<"y">>))

\* C29: the parser does not require a NEWLINE or EOF after a statement:
\* what follows a complete statement on the same line is parsed as further
\* statements, none is rejected, so one line yields one statement per
\* statement written on it (x = 1 2 yields x = 1 and the expression
\* statement 2).
C29_SeveralStatementsPerLine ==
  (Returned("parse") /\ "words" \in DOMAIN call) =>
     /\ source = JoinWords(call.words, 1)
     /\ statements = [k \in 1..Len(call.words) |-> StatementOf(call.words[k])]

\* the line "x = 1 2" gave the assignment and the expression statement
C29_Witness ==
  /\ Returned("parse")
  /\ source = <<"x", " ", "=", " ", "1", " ", "2", "\n">>
  /\ Len(statements) = 2
  /\ statements[1].kind = "Assign"
  /\ statements[2] = ExprStmt(LiteralExpr(<<"2">>, "NUMBER"))

\* ---- assignment ----

\* the variables before the third statement of an AssignProgram
BeforeAssign ==
  [n \in {<<"a">>, <<"x">>} |->
     IF n = <<"a">> THEN ListV(<<NumberV(FromInt(10))>>) ELSE NumberV(FromInt(7))]

\* the report of the fault the expression raises
AssignFaultReport(e) ==
  IF e = <<"n", "o", "s", "u", "c", "h", "(", "1", ")">> THEN FaultReport
  ELSE IF e = <<"x", "[", "0", "]">> THEN <<"Error: ", "Indexing not supported for this type", "\n">>
  ELSE <<"Error: ", "Index out of range", "\n">>

\* the value of an expression that does not fault
PlainValue(e) == IF e = <<"a", "[", "0", "]">> THEN NumberV(FromInt(10)) ELSE NumberV(FromInt(8))

\* C30: NAME = expr evaluates expr completely before it stores: when expr
\* faults the assignment writes nothing, and (expr holding no exec, eval or
\* file-handle call) the variables, a prior binding of NAME included, are
\* what they were before the statement; when expr does not fault NAME is
\* bound to its value and nothing else changes.
C30_FaultingAssignmentWritesNothing ==
  \A name \in AssignedNames :
     /\ \A e \in FaultingExprs \cup PlainExprs :
           (source = AssignProgram(name, e) /\ pc = "execute" /\ ip = 3) =>
              variables = BeforeAssign
     /\ \A e \in FaultingExprs :
           source = AssignProgram(name, e) =>
              /\ pc = "execute" => ip <= 3
              /\ FileRunOver =>
                    /\ pc = "failed"
                    /\ variables = BeforeAssign
                    /\ out = <<>>
                    /\ err = AssignFaultReport(e)
     /\ \A e \in PlainExprs :
           (source = AssignProgram(name, e) /\ FileRunOver) =>
              /\ pc = "exit"
              /\ variables = Bind(BeforeAssign, name, PlainValue(e))
              /\ out = (IF name = <<"x">> THEN toString(PlainValue(e)) ELSE <<"7">>)
                       \o <<"\n">>

\* x = a[5] faulted and x is still 7
C30_Witness ==
  /\ source = AssignProgram(<<"x">>, <<"a", "[", "5", "]">>)
  /\ pc = "failed"
  /\ err = <<"Error: ", "Index out of range", "\n">>
  /\ variables = BeforeAssign

=============================================================================
